---- MODULE Spec2Model ----
(***************************************************************************)
(* Structured-ASIC physical synthesis: the site grid and the nearest-free  *)
(* search (greedy_algorithm.py), the seed+grow placer (greedy_algorithm.py)*)
(* the HPWL cost and the simulated-annealing refiner (sa.py,               *)
(* bonus/sa_with_weights.py), the clock-tree builder and the tie-off of    *)
(* unused cells (eco_genearted.py).                                        *)
(*                                                                         *)
(* Conventions.  Micron values (site_w, site_h, pin x_um/y_um) are floats  *)
(* in the source; here they are integers and the arithmetic is exact.  A   *)
(* site is a pair <<sx, sy>>.  A Python dict is a function whose DOMAIN is *)
(* the key set.  A net member is a token [isstr, v]: isstr says whether    *)
(* the Python value is a str (isinstance(m, str)).                         *)
(***************************************************************************)
EXTENDS Integers, Sequences, FiniteSets, TLC

VARIABLES
    \* ---- SiteGrid (shared by the nearest-free search and the placer)
    sites_x, sites_y, site_w, site_h, occupied,
    \* ---- one call of find_nearest_free
    nf_pc, nf_start, nf_result,
    \* ---- the netlist and the pins (inputs of the placer)
    cells, nets, ports, pins,
    \* ---- run_seed / run_grow
    pl_pc, placements, pin_site_map, pin_idx, cell_idx,
    unplaced, placed_count, buckets, max_bucket,
    \* ---- one call of total_hpwl
    hp_pc, hp_nets, hp_placements, hp_weights, hp_result,
    \* ---- run_sa: its arguments, its locals, and min_accepted, the least
    \* cost among the input and the accepted states (history, not in the code)
    sa_pc, sa_params, sa_nets, sa_placements,
    current, current_cost, best_cost, best_place, T, W, move_no, min_accepted,
    \* ---- run_sa: accept, the local of the acceptance test, and the objects
    \* behind the placements: cell_dicts maps the id of an inner dict to
    \* its content (its "site" key holds the id of a list), site_lists maps
    \* the id of a list to its value, and placements_obj, current_obj and
    \* best_obj map the keys of the caller's dict, of current and of
    \* best_place to the ids of their inner dicts.  current and best_place
    \* are the values these objects hold, sa_placements the value of the
    \* argument at the call
    accept, placements_obj, current_obj, best_obj, cell_dicts, site_lists,
    \* ---- cluster_sinks / build_cts: the arguments, the cluster tree, the
    \* claimed set; cts_todo is the calls of build_cts still to return, in
    \* the order they return, and cts_ret what each returned call returned
    cts_pc, sinks, max_leaf, cluster_tree, available_bufs, available_invs,
    claimed, cts_todo, cts_ret, cts_assignments,
    \* ---- guess_ff_cells, assign_conb_per_tile, modify_mapped_json: the
    \* module's cells and net names, the arguments, the locals of the tie-off
    \* loop (tie_i, tie_pins and tie_tile are the cell and pin the loops are
    \* at and the cell's tile), and mapped_before, the module's cells as they
    \* were loaded (history, not in the code)
    tie_pc, module_cells, mapped_before, netnames, tile_to_nodes, max_fanout,
    leakage_db, placement_map, dff_instances, conb_assignment, conb_instances,
    tie_nets, unused_cells, tie_i, tie_pins, tie_tile, tied_count,
    fanout_warnings, power_savings,
    \* ---- one call of determine_optimal_tie: its arguments and its result
    ot_pc, ot_cell_type, ot_pin_name, ot_ldb, ot_result,
    \* ---- h_tree_cts (eco_generator.py): cells, the module's dict, and
    \* ht_names, its keys in order; dffs; nets['clk'] (ht_clk_net); the
    \* locals; ht_i is the index of the loop over dffs
    ht_pc, ht_names, ht_cells, ht_dffs, ht_clk_net, available_buffers,
    remaining_buffers, l0_buffers, ht_i, clock_buffers, current_level_bufs, level

gridVars == <<sites_x, sites_y, site_w, site_h, occupied>>
nfVars == <<nf_pc, nf_start, nf_result>>
netlistVars == <<cells, nets, ports, pins>>
seedVars == <<pin_site_map, pin_idx, cell_idx>>
growVars == <<unplaced, placed_count, buckets, max_bucket>>
placerVars == <<pl_pc, placements, seedVars, growVars>>
hpVars == <<hp_pc, hp_nets, hp_placements, hp_weights, hp_result>>
saArgs == <<sa_params, sa_nets, sa_placements>>
saObjs == <<placements_obj, current_obj, best_obj, cell_dicts, site_lists>>
saVars == <<sa_pc, saArgs, current, current_cost, best_cost, best_place, T, W,
            move_no, min_accepted, accept, saObjs>>
ctsArgs == <<sinks, max_leaf, available_bufs, available_invs>>
ctsVars == <<cts_pc, ctsArgs, cluster_tree, claimed, cts_todo, cts_ret, cts_assignments>>
tieArgs == <<tile_to_nodes, max_fanout, leakage_db, placement_map, mapped_before>>
tieLoop == <<unused_cells, tie_i, tie_pins, tie_tile, tied_count, fanout_warnings,
             power_savings>>
tieVars == <<tie_pc, tieArgs, module_cells, netnames, dff_instances, conb_assignment,
             conb_instances, tie_nets, tieLoop>>
otVars == <<ot_pc, ot_cell_type, ot_pin_name, ot_ldb, ot_result>>
htVars == <<ht_pc, ht_names, ht_cells, ht_dffs, ht_clk_net, available_buffers,
            remaining_buffers, l0_buffers, ht_i, clock_buffers, current_level_bufs, level>>
restVars == <<otVars, htVars>>
ecoVars == <<ctsVars, tieVars, restVars>>
vars == <<gridVars, nfVars, netlistVars, placerVars, hpVars, saVars, ecoVars>>

(***************************************************************************)
(* Bounds of the model.                                                    *)
(***************************************************************************)
MaxSitesX == 4
MaxSitesY == 3
\* longest member list of a net of the placer's netlists
MaxNetLen == 2
\* longest member list of a net given to total_hpwl
MaxMembers == 2
\* largest moves_per_temp of a run of run_sa
MaxMoves == 2

\* site (width, height) pairs in microns: square sites and both oblong shapes
SiteDims == {<<1, 1>>, <<1, 3>>, <<2, 1>>}

(***************************************************************************)
(* Arithmetic helpers.                                                     *)
(***************************************************************************)
Max2(a, b) == IF a >= b THEN a ELSE b
Min2(a, b) == IF a <= b THEN a ELSE b
Abs(a) == IF a >= 0 THEN a ELSE -a

\* Python round(n / d) for d > 0: round half to even
py_round(n, d) ==
    LET q == n \div d
        r == n % d
    IN  IF 2 * r < d THEN q
        ELSE IF 2 * r > d THEN q + 1
        ELSE IF q % 2 = 0 THEN q ELSE q + 1

AllSites(sx, sy) == (0 .. sx - 1) \X (0 .. sy - 1)

(***************************************************************************)
(* greedy_algorithm.py: xy_to_site, site_to_xy                             *)
(***************************************************************************)
xy_to_site(x_um, y_um, w, h, nx, ny) ==
    LET sx == py_round(x_um, w)
        sy == py_round(y_um, h)
    IN  <<Max2(0, Min2(nx - 1, sx)), Max2(0, Min2(ny - 1, sy))>>

site_to_xy(sx, sy, w, h) == <<sx * w, sy * h>>

(***************************************************************************)
(* greedy_algorithm.py: find_nearest_free                                  *)
(* The result is [raised, site]: raised = TRUE is the RuntimeError         *)
(* "No free site found" (site is then meaningless).                        *)
(***************************************************************************)
Returned(s) == [raised |-> FALSE, site |-> s]
NoFreeSite == [raised |-> TRUE, site |-> <<-1, -1>>]

\* line 45-52: the square ring of the given radius around start
ring_points(start, radius) ==
    {<<start[1] + dx, start[2] + radius>> : dx \in -radius .. radius}
    \cup {<<start[1] + dx, start[2] - radius>> : dx \in -radius .. radius}
    \cup {<<start[1] + radius, start[2] + dy>> : dy \in -radius + 1 .. radius - 1}
    \cup {<<start[1] - radius, start[2] + dy>> : dy \in -radius + 1 .. radius - 1}

\* line 55, mutated: the upper bounds are off by one
in_grid_off_by_one(p, nx, ny) == 0 <= p[1] /\ p[1] <= nx /\ 0 <= p[2] /\ p[2] <= ny

\* line 55: 0 <= nx < sites_x and 0 <= ny < sites_y
in_grid(p, nx, ny) == 0 <= p[1] /\ p[1] < nx /\ 0 <= p[2] /\ p[2] < ny

\* line 58: math.hypot(dx*site_w, dy*site_h), compared through its square
dist2(p, start, w, h) ==
    ((p[1] - start[1]) * w) * ((p[1] - start[1]) * w)
    + ((p[2] - start[2]) * h) * ((p[2] - start[2]) * h)

\* the heap's order on its entries (dist, nx, ny): Python tuple comparison
heap_less(p, q, start, w, h) ==
    LET dp == dist2(p, start, w, h)
        dq == dist2(q, start, w, h)
    IN  \/ dp < dq
        \/ dp = dq /\ p[1] < q[1]
        \/ dp = dq /\ p[1] = q[1] /\ p[2] < q[2]

\* line 62: heappop returns the least entry
heappop(heap, start, w, h) ==
    CHOOSE p \in heap : \A q \in heap \ {p} : heap_less(p, q, start, w, h)

\* line 61-64, mutated: the popped site is returned without the test of
\* line 63
pop_unchecked(heap, occ, start, w, h) ==
    IF heap = {} THEN NoFreeSite ELSE Returned(heappop(heap, start, w, h))

\* line 61-64: pop until a free site comes out or the heap is empty
RECURSIVE pop_until_free(_, _, _, _, _)
pop_until_free(heap, occ, start, w, h) ==
    IF heap = {} THEN NoFreeSite
    ELSE LET p == heappop(heap, start, w, h)
         IN  IF p \notin occ THEN Returned(p)
             ELSE pop_until_free(heap \ {p}, occ, start, w, h)

\* line 69-72: first free site in row-major order (sy outer, sx inner)
linear_scan(occ, nx, ny) ==
    LET free == AllSites(nx, ny) \ occ
    IN  IF free = {} THEN NoFreeSite
        ELSE Returned(CHOOSE p \in free : \A q \in free \ {p} :
                 p[2] < q[2] \/ (p[2] = q[2] /\ p[1] < q[1]))

\* line 41-66: the rings of radius 1 .. max(sites_x, sites_y), then line 68-74.
\* The rings are disjoint, so `visited` never filters anything and the heap
\* is empty at the start of each ring.
RECURSIVE ring_search(_, _, _, _, _, _, _)
ring_search(radius, start, occ, nx, ny, w, h) ==
    IF radius > Max2(nx, ny) THEN linear_scan(occ, nx, ny)
    ELSE LET heap == {p \in ring_points(start, radius) : in_grid(p, nx, ny)}
             r == pop_until_free(heap, occ, start, w, h)
         IN  IF ~r.raised THEN r
             ELSE ring_search(radius + 1, start, occ, nx, ny, w, h)

\* mutated: the start is returned whether it is free or not
find_nearest_free_always_start(start, occ, nx, ny, w, h) == Returned(start)

\* mutated: the early return of a free start (line 32-33) is missing
find_nearest_free_no_early_return(start, occ, nx, ny, w, h) ==
    ring_search(1, start, occ, nx, ny, w, h)

find_nearest_free(start, occ, nx, ny, w, h) ==
    IF start \notin occ THEN Returned(start)
    ELSE ring_search(1, start, occ, nx, ny, w, h)

(***************************************************************************)
(* Tokens and dicts.                                                       *)
(***************************************************************************)
Str(name) == [isstr |-> TRUE, v |-> name]
NonStr == [isstr |-> FALSE, v |-> "0"]

EmptyDict == [k \in {} |-> 0]
DictSet(d, k, val) == [x \in DOMAIN d \cup {k} |-> IF x = k THEN val ELSE d[x]]

Range(seq) == {seq[i] : i \in DOMAIN seq}

\* the str entries of a member list, as names, in order
StrMembers(members) ==
    LET strs == SelectSeq(members, LAMBDA m : m.isstr)
    IN  [i \in DOMAIN strs |-> strs[i].v]

(***************************************************************************)
(* The parts of the state a specification does not run.                    *)
(***************************************************************************)
NearestIdle == nf_pc = "idle" /\ nf_start = <<0, 0>> /\ nf_result = NoFreeSite

HpwlIdle ==
    /\ hp_pc = "idle" /\ hp_nets = EmptyDict /\ hp_placements = EmptyDict
    /\ hp_weights = EmptyDict /\ hp_result = 0

SaIdle ==
    /\ sa_pc = "idle" /\ sa_params = EmptyDict /\ sa_nets = EmptyDict
    /\ sa_placements = EmptyDict /\ current = EmptyDict /\ current_cost = 0
    /\ best_cost = 0 /\ best_place = EmptyDict /\ T = <<0, 1>> /\ W = <<0, 1>>
    /\ move_no = 0 /\ min_accepted = 0 /\ accept = FALSE
    /\ placements_obj = EmptyDict /\ current_obj = EmptyDict /\ best_obj = EmptyDict
    /\ cell_dicts = EmptyDict /\ site_lists = EmptyDict

GridIdle ==
    /\ sites_x = 0 /\ sites_y = 0 /\ site_w = 1 /\ site_h = 1 /\ occupied = {}

CtsIdle ==
    /\ cts_pc = "idle" /\ sinks = <<>> /\ max_leaf = 1 /\ cluster_tree = EmptyDict
    /\ available_bufs = <<>> /\ available_invs = <<>> /\ claimed = {}
    /\ cts_todo = <<>> /\ cts_ret = EmptyDict /\ cts_assignments = <<>>


(***************************************************************************)
(* greedy_algorithm.py: build_adjacency.  adj[c] is the set of names that  *)
(* share a net with c at another position of the member list (a name that  *)
(* occurs twice in one list becomes its own neighbour).                    *)
(***************************************************************************)
build_adjacency(nts, c) ==
    {b \in UNION {Range(StrMembers(nts[n])) : n \in DOMAIN nts} :
        \E n \in DOMAIN nts :
            LET cs == StrMembers(nts[n])
            IN  \E i \in DOMAIN cs, j \in DOMAIN cs :
                    i # j /\ cs[i] = c /\ cs[j] = b}

adj(c) == build_adjacency(nets, c)

\* run_grow line 184
total_deg(c) == Cardinality(adj(c))

(***************************************************************************)
(* greedy_algorithm.py: run_seed                                           *)
(***************************************************************************)
\* line 108-115: the str members of the nets named by the port's bits
RECURSIVE cells_of_bits(_, _)
cells_of_bits(bits, nts) ==
    IF bits = <<>> THEN <<>>
    ELSE (IF Head(bits) \in DOMAIN nts THEN StrMembers(nts[Head(bits)]) ELSE <<>>)
         \o cells_of_bits(Tail(bits), nts)

\* line 128: port_to_cells.get(pname, [])
port_to_cells(pname) ==
    IF pname \in DOMAIN ports THEN cells_of_bits(ports[pname], nets) ELSE <<>>

\* line 119, mutated: the test of the status is missing
fixed_pins_any_status == pins

\* line 119
fixed_pins == SelectSeq(pins, LAMBDA p : p.status = "FIXED")

\* line 148-152, 220-224, 244-248: one entry of placements
Placement(site, pin, grow) ==
    [site |-> site, site_um |-> <<site[1] * site_w, site[2] * site_h>>,
     via_pin |-> pin, via_grow |-> grow]

PlacerIdle ==
    /\ cells = {} /\ nets = EmptyDict /\ ports = EmptyDict /\ pins = <<>>
    /\ pl_pc = "idle" /\ placements = EmptyDict /\ pin_site_map = EmptyDict
    /\ pin_idx = 0 /\ cell_idx = 0
    /\ unplaced = {} /\ placed_count = EmptyDict /\ buckets = EmptyDict
    /\ max_bucket = 0

\* line 125-139: the next fixed pin is placed on the free site nearest to it
SeedPlacePin ==
    /\ pl_pc = "seed_pin"
    /\ pin_idx <= Len(fixed_pins)
    /\ LET pin == fixed_pins[pin_idx]
           s == xy_to_site(pin.x_um, pin.y_um, site_w, site_h, sites_x, sites_y)
           r == find_nearest_free(s, occupied, sites_x, sites_y, site_w, site_h)
       IN  IF r.raised
           THEN /\ pl_pc' = "raised"
                /\ UNCHANGED <<occupied, pin_site_map, cell_idx>>
           ELSE /\ pin_site_map' = DictSet(pin_site_map, pin.name, r.site)
                /\ occupied' = occupied \cup {r.site}
                /\ cell_idx' = 1
                /\ pl_pc' = "seed_cells"
    /\ UNCHANGED <<sites_x, sites_y, site_w, site_h, nfVars, hpVars, saVars,
                   netlistVars, ecoVars,
                   placements, pin_idx, growVars>>

\* line 143-155: one iteration of the loop over the pin's connected cells
SeedCell ==
    /\ pl_pc = "seed_cells"
    /\ LET pname == fixed_pins[pin_idx].name
           connected == port_to_cells(pname)
       IN  /\ cell_idx <= Len(connected)
           /\ LET cell == connected[cell_idx]
                  r == find_nearest_free(pin_site_map[pname], occupied,
                                         sites_x, sites_y, site_w, site_h)
              IN  IF cell \in DOMAIN placements
                  THEN /\ cell_idx' = cell_idx + 1
                       /\ UNCHANGED <<pl_pc, placements, occupied>>
                  ELSE IF r.raised
                  THEN /\ pl_pc' = "raised"
                       /\ UNCHANGED <<cell_idx, placements, occupied>>
                  ELSE /\ placements' =
                              DictSet(placements, cell, Placement(r.site, pname, ""))
                       /\ occupied' = occupied \cup {r.site}
                       /\ cell_idx' = cell_idx + 1
                       /\ pl_pc' = pl_pc
    /\ UNCHANGED <<sites_x, sites_y, site_w, site_h, nfVars, hpVars, saVars,
                   netlistVars, ecoVars,
                   pin_site_map, pin_idx, growVars>>

\* line 157: the pin's cells are done, on to the next pin
SeedPinDone ==
    /\ pl_pc = "seed_cells"
    /\ cell_idx > Len(port_to_cells(fixed_pins[pin_idx].name))
    /\ pin_idx' = pin_idx + 1
    /\ pl_pc' = "seed_pin"
    /\ UNCHANGED <<gridVars, nfVars, hpVars, saVars, netlistVars, ecoVars, placements, pin_site_map,
                   cell_idx, growVars>>

(***************************************************************************)
(* greedy_algorithm.py: run_grow                                           *)
(***************************************************************************)
PlacedNeighbours(c, pl) == {n \in adj(c) : n \in DOMAIN pl}

\* line 160-174 (run_seed returns), then run_grow line 181-195: the unplaced
\* cells are bucketed by their number of placed neighbours
GrowStart ==
    /\ pl_pc = "seed_pin"
    /\ pin_idx > Len(fixed_pins)
    /\ LET up == cells \ DOMAIN placements
           cnt == [c \in up |-> Cardinality(PlacedNeighbours(c, placements))]
       IN  /\ unplaced' = up
           /\ placed_count' = cnt
           /\ buckets' = [k \in 0 .. Cardinality(cells) |-> {c \in up : cnt[c] = k}]
           /\ max_bucket' = IF up = {} THEN 0
                            ELSE CHOOSE k \in {cnt[c] : c \in up} :
                                     \A c \in up : cnt[c] <= k
    /\ pl_pc' = "grow"
    /\ UNCHANGED <<gridVars, nfVars, hpVars, saVars, netlistVars, ecoVars, placements, seedVars>>

\* line 201-202, mutated: max_bucket is not lowered
lower_max_bucket_never(mb, bk) == mb

\* line 201-202: max_bucket is lowered to the highest non-empty bucket, or 0
RECURSIVE lower_max_bucket(_, _)
lower_max_bucket(mb, bk) ==
    IF mb > 0 /\ bk[mb] = {} THEN lower_max_bucket(mb - 1, bk) ELSE mb

\* line 206, 240, mutated: any cell of the group, whatever its degree
MaxDegree_any(group) == group

\* line 206, 240: max(group, key=total_deg): a cell of greatest degree (which
\* one of several depends on the set's iteration order)
MaxDegree(group) == {c \in group : \A d \in group : total_deg(d) <= total_deg(c)}

RECURSIVE SumSites(_, _, _)
SumSites(names, pl, axis) ==
    IF names = {} THEN 0
    ELSE LET n == CHOOSE x \in names : TRUE
         IN  pl[n].site[axis] + SumSites(names \ {n}, pl, axis)

\* line 209-217: the site of the mean micron position of the placed neighbours
centroid_site(cell, pl) ==
    LET neigh == PlacedNeighbours(cell, pl)
        n == Cardinality(neigh)
    IN  <<Max2(0, Min2(sites_x - 1, py_round(SumSites(neigh, pl, 1) * site_w, n * site_w))),
          Max2(0, Min2(sites_y - 1, py_round(SumSites(neigh, pl, 2) * site_h, n * site_h)))>>

\* line 228-236, 252-260: the still unplaced neighbours of the placed cell
\* move up one bucket
RECURSIVE rebucket(_, _, _, _)
rebucket(nbs, cnt, bk, mb) ==
    IF nbs = {} THEN [placed_count |-> cnt, buckets |-> bk, max_bucket |-> mb]
    ELSE LET nb == CHOOSE x \in nbs : TRUE
             old == cnt[nb]
             new == old + 1
             bk1 == [bk EXCEPT ![old] = @ \ {nb}]
             bk2 == [bk1 EXCEPT ![new] = @ \cup {nb}]
         IN  rebucket(nbs \ {nb}, [cnt EXCEPT ![nb] = new], bk2, Max2(mb, new))

\* line 220-236 / 244-260: the cell takes the site and leaves `unplaced`
PlaceGrown(cell, site, grow, bk, mb) ==
    LET up == unplaced \ {cell}
        rb == rebucket({nb \in adj(cell) : nb \in up}, placed_count, bk, mb)
    IN  /\ placements' = DictSet(placements, cell, Placement(site, "", grow))
        /\ occupied' = occupied \cup {site}
        /\ unplaced' = up
        /\ placed_count' = rb.placed_count
        /\ buckets' = rb.buckets
        /\ max_bucket' = rb.max_bucket
        /\ pl_pc' = pl_pc

\* find_nearest_free raised: run_grow is left with the loop's state as it is
GrowRaise(bk, mb) ==
    /\ pl_pc' = "raised"
    /\ buckets' = bk
    /\ max_bucket' = mb
    /\ UNCHANGED <<placements, occupied, unplaced, placed_count>>

\* line 199-236: one iteration that takes a cell from the highest bucket
GrowFromBucket ==
    /\ pl_pc = "grow"
    /\ unplaced # {}
    /\ LET mb == lower_max_bucket(max_bucket, buckets)
       IN  /\ mb > 0
           /\ \E cell \in MaxDegree(buckets[mb]) :
                 LET bk == [buckets EXCEPT ![mb] = @ \ {cell}]
                     r == find_nearest_free(centroid_site(cell, placements), occupied,
                                            sites_x, sites_y, site_w, site_h)
                 IN  IF PlacedNeighbours(cell, placements) = {}
                     THEN \* line 215: sum(xs)/len(xs) divides by zero
                          /\ pl_pc' = "zero_division"
                          /\ max_bucket' = mb
                          /\ buckets' = bk
                          /\ UNCHANGED <<placements, occupied, unplaced, placed_count>>
                     ELSE IF r.raised
                     THEN GrowRaise(bk, mb)
                     ELSE PlaceGrown(cell, r.site, "true", bk, mb)
    /\ UNCHANGED <<sites_x, sites_y, site_w, site_h, nfVars, hpVars, saVars,
                   netlistVars, ecoVars, seedVars>>

\* line 199-204, 238-260: no bucket above 0 holds a cell: the unplaced cell
\* of greatest degree goes next to the grid centre
GrowFallback ==
    /\ pl_pc = "grow"
    /\ unplaced # {}
    /\ LET mb == lower_max_bucket(max_bucket, buckets)
       IN  /\ mb = 0
           /\ \E cell \in MaxDegree(unplaced) :
                 LET r == find_nearest_free(<<sites_x \div 2, sites_y \div 2>>, occupied,
                                            sites_x, sites_y, site_w, site_h)
                 IN  IF r.raised
                     THEN GrowRaise(buckets, mb)
                     ELSE PlaceGrown(cell, r.site, "fallback", buckets, mb)
    /\ UNCHANGED <<sites_x, sites_y, site_w, site_h, nfVars, hpVars, saVars,
                   netlistVars, ecoVars, seedVars>>

\* line 199, 262-263: no cell is left
GrowReturn ==
    /\ pl_pc = "grow"
    /\ unplaced = {}
    /\ pl_pc' = "done"
    /\ UNCHANGED <<gridVars, nfVars, hpVars, saVars, netlistVars, ecoVars, placements, seedVars, growVars>>

(***************************************************************************)
(* sa.py: total_hpwl; bonus/sa_with_weights.py: total_hpwl with net        *)
(* weights.  A placement entry is [site |-> <<sx, sy>>].  A weight is      *)
(* [num, val]: num = FALSE is a value float() rejects (None, a word).      *)
(***************************************************************************)
Site(s) == [site |-> s]
Weight(k) == [num |-> TRUE, val |-> k]
BadWeight == [num |-> FALSE, val |-> 0]

\* sa.py line 30-36: xs (axis 1) and ys (axis 2), one entry per member that
\* is a str and a key of placements
RECURSIVE placed_coords(_, _, _)
placed_coords(members, pl, axis) ==
    IF members = <<>> THEN <<>>
    ELSE LET m == Head(members)
             rest == placed_coords(Tail(members), pl, axis)
         IN  IF m.isstr /\ m.v \in DOMAIN pl
             THEN <<pl[m.v].site[axis]>> \o rest
             ELSE rest

RECURSIVE seq_max(_)
seq_max(q) == IF Len(q) = 1 THEN q[1] ELSE Max2(q[1], seq_max(Tail(q)))

RECURSIVE seq_min(_)
seq_min(q) == IF Len(q) = 1 THEN q[1] ELSE Min2(q[1], seq_min(Tail(q)))

\* line 37-38, mutated: the y span is left out
net_span_x_only(members, pl) ==
    LET xs == placed_coords(members, pl, 1)
    IN  IF xs # <<>> THEN seq_max(xs) - seq_min(xs) ELSE 0

\* line 37-38, mutated: the minima are not subtracted
net_span_no_min(members, pl) ==
    LET xs == placed_coords(members, pl, 1)
        ys == placed_coords(members, pl, 2)
    IN  IF xs # <<>> THEN seq_max(xs) + seq_max(ys) ELSE 0

\* sa.py line 37-38: (max(xs) - min(xs)) + (max(ys) - min(ys)), if xs
net_span(members, pl) ==
    LET xs == placed_coords(members, pl, 1)
        ys == placed_coords(members, pl, 2)
    IN  IF xs # <<>>
        THEN (seq_max(xs) - seq_min(xs)) + (seq_max(ys) - seq_min(ys))
        ELSE 0

\* sa.py line 28-39: the loop over nets.items()
RECURSIVE hpwl_over(_, _, _)
hpwl_over(names, nts, pl) ==
    IF names = {} THEN 0
    ELSE LET n == CHOOSE x \in names : TRUE
         IN  net_span(nts[n], pl) + hpwl_over(names \ {n}, nts, pl)

total_hpwl(nts, pl) == hpwl_over(DOMAIN nts, nts, pl)

\* sa_with_weights.py line 21-26: 1.0, or float(net_weights[net]) when
\* net_weights is non-empty and has the net; 1.0 again when float() fails
net_weight(n, nw) ==
    IF nw # EmptyDict /\ n \in DOMAIN nw
    THEN (IF nw[n].num THEN nw[n].val ELSE 1)
    ELSE 1

\* sa_with_weights.py line 10-28
RECURSIVE weighted_hpwl_over(_, _, _, _)
weighted_hpwl_over(names, nts, pl, nw) ==
    IF names = {} THEN 0
    ELSE LET n == CHOOSE x \in names : TRUE
         IN  (IF placed_coords(nts[n], pl, 1) # <<>>
              THEN net_weight(n, nw) * net_span(nts[n], pl)
              ELSE 0)
             + weighted_hpwl_over(names \ {n}, nts, pl, nw)

total_hpwl_weighted(nts, pl, nw) == weighted_hpwl_over(DOMAIN nts, nts, pl, nw)

(***************************************************************************)
(* sa.py: _swap_sites, run_sa.  T, W and the float parameters are exact    *)
(* fractions <<numerator, denominator>>; <<0, 0>> stands for None.         *)
(***************************************************************************)
RECURSIVE Gcd(_, _)
Gcd(a, b) == IF b = 0 THEN a ELSE Gcd(b, a % b)

Frac(n, d) == LET g == Gcd(Abs(n), d) IN <<n \div g, d \div g>>
FracMul(a, b) == Frac(a[1] * b[1], a[2] * b[2])
FracGt(a, b) == a[1] * b[2] > b[1] * a[2]
None == <<0, 0>>

\* line 41-45, mutated: c2 is given c1's new site instead of its old one
swap_sites_overwrite(pl, c1, c2) ==
    [pl EXCEPT ![c1].site = pl[c2].site, ![c2].site = pl[c2].site]

\* line 41-45
_swap_sites(pl, c1, c2) ==
    [pl EXCEPT ![c1].site = pl[c2].site, ![c2].site = pl[c1].site]

\* line 86-89: the defaults of W_initial and beta
W_default(p, nx, ny) ==
    IF p.W_initial = None THEN Frac(Max2(2, Max2(nx, ny)), 2) ELSE p.W_initial
beta_default(p) == IF p.beta = None THEN p.alpha ELSE p.beta

\* line 121-127: the cells other than c1 inside the window around c1
candidates(cur, c1, w) ==
    LET wx == Max2(0, py_round(w[1], w[2]))
    IN  {c \in DOMAIN cur :
            /\ Abs(cur[c].site[1] - cur[c1].site[1]) <= wx
            /\ Abs(cur[c].site[2] - cur[c1].site[2]) <= wx
            /\ c # c1}

\* line 129-133: the partners of c1 in an explore move
explore_partners(cur, c1, w) ==
    IF candidates(cur, c1, w) = {} THEN DOMAIN cur \ {c1}
    ELSE candidates(cur, c1, w)

\* line 140-151: the outcomes of the acceptance test.  For delta > 0 the
\* move is accepted when random() < exp(-delta/T), a number in [0, 1]
metropolis(delta) == IF delta <= 0 THEN {TRUE} ELSE {TRUE, FALSE}

\* line 155-157, mutated: the best is overwritten by every accepted state
track_best_always(cost, place, bc, bp) ==
    [best_cost |-> cost, best_place |-> place]

\* line 155-157, mutated: the best placement is not copied with its cost
track_best_cost_only(cost, place, bc, bp) ==
    IF cost < bc THEN [best_cost |-> cost, best_place |-> bp]
    ELSE [best_cost |-> bc, best_place |-> bp]

\* line 155-157: a strictly better accepted state becomes the best
track_best(cost, place, bc, bp) ==
    IF cost < bc THEN [best_cost |-> cost, best_place |-> place]
    ELSE [best_cost |-> bc, best_place |-> bp]

\* a placement with the objects it is made of: obj maps each key to the id
\* of its inner dict, dicts and lists are the inner dicts and the site lists
PlObjects(obj, dicts, lists) == [obj |-> obj, dicts |-> dicts, lists |-> lists]

\* the value of a placement: placements[c]["site"] for each key c
value_of(obj, dicts, lists) ==
    [c \in DOMAIN obj |-> Site(lists[dicts[obj[c]].site])]

\* the k-th least id that is not in used, and the rank of x in S
NthFree(k, used) ==
    CHOOSE n \in 1 .. (Cardinality(used) + k) :
        n \notin used /\ Cardinality((1 .. n) \ used) = k
Rank(x, S) == Cardinality({y \in S : y <= x})

\* line 92, 100, 157, mutated: copy.copy instead of copy.deepcopy, a new
\* outer dict over the same inner dicts
deepcopy_shallow(obj, dicts, lists) == PlObjects(obj, dicts, lists)

\* line 92, 100, 157: copy.deepcopy of a placement: a new inner dict for
\* each inner dict and a new list for each site list (an object that is
\* shared in the original is shared in the copy), all with ids not in use
deepcopy(obj, dicts, lists) ==
    LET ds == {obj[c] : c \in DOMAIN obj}
        ls == {dicts[d].site : d \in ds}
        nd(d) == NthFree(Rank(d, ds), DOMAIN dicts)
        nl(l) == NthFree(Rank(l, ls), DOMAIN lists)
    IN  PlObjects([c \in DOMAIN obj |-> nd(obj[c])],
                  [i \in DOMAIN dicts \cup {nd(d) : d \in ds} |->
                      IF i \in DOMAIN dicts THEN dicts[i]
                      ELSE Site(nl(dicts[CHOOSE d \in ds : nd(d) = i].site))],
                  [i \in DOMAIN lists \cup {nl(l) : l \in ls} |->
                      IF i \in DOMAIN lists THEN lists[i]
                      ELSE lists[CHOOSE l \in ls : nl(l) = i]])

\* the inner dicts and the lists that the placements in roots still refer to
live_dicts(roots, dicts) ==
    [d \in UNION {{r[c] : c \in DOMAIN r} : r \in roots} \cap DOMAIN dicts |-> dicts[d]]
live_lists(kept, lists) ==
    [l \in {kept[d].site : d \in DOMAIN kept} \cap DOMAIN lists |-> lists[l]]

\* line 158-160, mutated: a rejected swap is not undone
revert_swap_none(dicts, d1, d2) == dicts

\* line 158-160: a rejected swap is undone by the same swap
revert_swap(dicts, d1, d2) == _swap_sites(dicts, d1, d2)

\* line 136-160: swap, cost, accept or revert.  _swap_sites works on the
\* inner dicts of current; deepcopy sees best_place's former objects alive
MoveOutcome(c1, c2) ==
    LET d1 == current_obj[c1]
        d2 == current_obj[c2]
        swapped_dicts == _swap_sites(cell_dicts, d1, d2)
        swapped == value_of(current_obj, swapped_dicts, site_lists)
        new_cost == total_hpwl(sa_nets, swapped)
        delta == new_cost - current_cost
    IN  \E acc \in metropolis(delta) :
            /\ accept' = acc
            /\ IF acc
               THEN LET b == track_best(new_cost,
                                        deepcopy(current_obj, swapped_dicts, site_lists),
                                        best_cost,
                                        PlObjects(best_obj, swapped_dicts, site_lists))
                        kept == live_dicts({placements_obj, current_obj, b.best_place.obj},
                                           b.best_place.dicts)
                    IN  /\ best_obj' = b.best_place.obj
                        /\ cell_dicts' = kept
                        /\ site_lists' = live_lists(kept, b.best_place.lists)
                        /\ current_cost' = new_cost
                        /\ best_cost' = b.best_cost
                        /\ min_accepted' = Min2(min_accepted, new_cost)
               ELSE /\ cell_dicts' = revert_swap(swapped_dicts, d1, d2)
                    /\ UNCHANGED <<best_obj, site_lists, current_cost, best_cost,
                                   min_accepted>>
            /\ current' = value_of(current_obj, cell_dicts', site_lists')
            /\ best_place' = value_of(best_obj', cell_dicts', site_lists')
            /\ UNCHANGED <<placements_obj, current_obj>>

InLoop == sa_pc = "run" /\ FracGt(T, sa_params.T_min)

\* line 110-112 and 136-160: a refine move, two distinct cells at random
RefineMove ==
    /\ InLoop
    /\ move_no < sa_params.moves_per_temp
    /\ FracGt(sa_params.p_refine, <<0, 1>>)
    /\ Cardinality(DOMAIN current) >= 2
    /\ \E c1 \in DOMAIN current, c2 \in DOMAIN current :
          c1 # c2 /\ MoveOutcome(c1, c2)
    /\ move_no' = move_no + 1
    /\ UNCHANGED <<sa_pc, saArgs, T, W>>
    /\ UNCHANGED <<gridVars, nfVars, netlistVars, ecoVars, placerVars, hpVars>>

\* line 113-133 and 136-160: an explore move, a cell and a partner from its
\* window, or any other cell when the window holds none
ExploreMove ==
    /\ InLoop
    /\ move_no < sa_params.moves_per_temp
    /\ FracGt(<<1, 1>>, sa_params.p_refine)
    /\ Cardinality(DOMAIN current) >= 2
    /\ \E c1 \in DOMAIN current :
          \E c2 \in explore_partners(current, c1, W) : MoveOutcome(c1, c2)
    /\ move_no' = move_no + 1
    /\ UNCHANGED <<sa_pc, saArgs, T, W>>
    /\ UNCHANGED <<gridVars, nfVars, netlistVars, ecoVars, placerVars, hpVars>>

\* line 112, 115, 131: with fewer than two cells random.sample and
\* random.choice raise (ValueError, IndexError)
MoveRaises ==
    /\ InLoop
    /\ move_no < sa_params.moves_per_temp
    /\ Cardinality(DOMAIN current) < 2
    /\ sa_pc' = "raised"
    /\ UNCHANGED <<saArgs, current, current_cost, best_cost, best_place, T, W,
                   move_no, min_accepted, accept, saObjs>>
    /\ UNCHANGED <<gridVars, nfVars, netlistVars, ecoVars, placerVars, hpVars>>

\* line 162-164: the inner loop is over: cool down
CoolDown ==
    /\ InLoop
    /\ move_no = sa_params.moves_per_temp
    /\ T' = FracMul(T, sa_params.alpha)
    /\ W' = FracMul(W, beta_default(sa_params))
    /\ move_no' = 0
    /\ UNCHANGED <<sa_pc, saArgs, current, current_cost, best_cost, best_place,
                   min_accepted, accept, saObjs>>
    /\ UNCHANGED <<gridVars, nfVars, netlistVars, ecoVars, placerVars, hpVars>>

\* line 106, 168-171: T <= T_min: return best_place, best_cost
SaReturn ==
    /\ sa_pc = "run"
    /\ ~FracGt(T, sa_params.T_min)
    /\ sa_pc' = "done"
    /\ UNCHANGED <<saArgs, current, current_cost, best_cost, best_place, T, W,
                   move_no, min_accepted, accept, saObjs>>
    /\ UNCHANGED <<gridVars, nfVars, netlistVars, ecoVars, placerVars, hpVars>>

(***************************************************************************)
(* bonus/sa_with_weights.py: run_sa with net_weights.  The text is that of *)
(* sa.py's run_sa with the weighted total_hpwl, but for the acceptance     *)
(* test: line 113 reads the name prob, which nothing assigns.              *)
(***************************************************************************)
\* sa_with_weights.py line 104-123: swap, weighted cost, accept; for
\* delta > 0 the test `random.random() < prob` raises NameError, after
\* the swap and after accept = False
WeightedMoveOutcome(c1, c2) ==
    LET d1 == current_obj[c1]
        d2 == current_obj[c2]
        swapped_dicts == _swap_sites(cell_dicts, d1, d2)
        swapped == value_of(current_obj, swapped_dicts, site_lists)
        new_cost == total_hpwl_weighted(sa_nets, swapped, sa_params.net_weights)
        delta == new_cost - current_cost
    IN  /\ IF delta <= 0
           THEN LET b == track_best(new_cost,
                                    deepcopy(current_obj, swapped_dicts, site_lists),
                                    best_cost,
                                    PlObjects(best_obj, swapped_dicts, site_lists))
                    kept == live_dicts({placements_obj, current_obj, b.best_place.obj},
                                       b.best_place.dicts)
                IN  /\ accept' = TRUE
                    /\ best_obj' = b.best_place.obj
                    /\ cell_dicts' = kept
                    /\ site_lists' = live_lists(kept, b.best_place.lists)
                    /\ current_cost' = new_cost
                    /\ best_cost' = b.best_cost
                    /\ min_accepted' = Min2(min_accepted, new_cost)
                    /\ UNCHANGED sa_pc
           ELSE /\ accept' = FALSE
                /\ cell_dicts' = swapped_dicts
                /\ sa_pc' = "name_error"
                /\ UNCHANGED <<best_obj, site_lists, current_cost, best_cost,
                               min_accepted>>
        /\ current' = value_of(current_obj, cell_dicts', site_lists')
        /\ best_place' = value_of(best_obj', cell_dicts', site_lists')
        /\ UNCHANGED <<placements_obj, current_obj>>

\* sa_with_weights.py line 80-82 and 104-123
WeightedRefineMove ==
    /\ InLoop
    /\ move_no < sa_params.moves_per_temp
    /\ FracGt(sa_params.p_refine, <<0, 1>>)
    /\ Cardinality(DOMAIN current) >= 2
    /\ \E c1 \in DOMAIN current, c2 \in DOMAIN current :
          c1 # c2 /\ WeightedMoveOutcome(c1, c2)
    /\ move_no' = move_no + 1
    /\ UNCHANGED <<saArgs, T, W>>
    /\ UNCHANGED <<gridVars, nfVars, netlistVars, ecoVars, placerVars, hpVars>>

\* sa_with_weights.py line 83-101 and 104-123
WeightedExploreMove ==
    /\ InLoop
    /\ move_no < sa_params.moves_per_temp
    /\ FracGt(<<1, 1>>, sa_params.p_refine)
    /\ Cardinality(DOMAIN current) >= 2
    /\ \E c1 \in DOMAIN current :
          \E c2 \in explore_partners(current, c1, W) : WeightedMoveOutcome(c1, c2)
    /\ move_no' = move_no + 1
    /\ UNCHANGED <<saArgs, T, W>>
    /\ UNCHANGED <<gridVars, nfVars, netlistVars, ecoVars, placerVars, hpVars>>

(***************************************************************************)
(* eco_genearted.py: cluster_sinks, claim_nearest_node, build_cts.  A sink *)
(* is <<x, y, name>> as main builds it; a fabric node is a record          *)
(* [x, y, name, tile, cell_type].  A centre is a pair of exact fractions.  *)
(* A Euclidean length is kept as its square: "wirelength" is the list of   *)
(* the squared segment lengths whose roots the code sums, and              *)
(* "max_segment_length" the square of the longest segment.  Coordinates    *)
(* are far below the 1e9 that claim_nearest_node starts bestd with.        *)
(***************************************************************************)
Node(x, y, name, tile, cell_type) ==
    [x |-> x, y |-> y, name |-> name, tile |-> tile, cell_type |-> cell_type]

FracAdd(a, b) == Frac(a[1] * b[2] + b[1] * a[2], a[2] * b[2])
FracHalf(a) == Frac(a[1], 2 * a[2])

\* line 360-361, 366-367: [s[axis] for s in sinks]
coords(sks, axis) == [i \in DOMAIN sks |-> sks[i][axis]]

RECURSIVE seq_sum(_)
seq_sum(q) == IF q = <<>> THEN 0 ELSE Head(q) + seq_sum(Tail(q))

\* line 362-363: sum(xs)/len(xs) if xs else 0
mean(q) == IF q # <<>> THEN Frac(seq_sum(q), Len(q)) ELSE <<0, 1>>

\* line 371, sorted(sinks, key=lambda s: s[axis]): one stable insertion
insert_sorted(sorted, s, axis) ==
    LET after == {i \in DOMAIN sorted : sorted[i][axis] > s[axis]}
        k == IF after = {} THEN Len(sorted) + 1
             ELSE CHOOSE i \in after : \A j \in after : i <= j
    IN  SubSeq(sorted, 1, k - 1) \o <<s>> \o SubSeq(sorted, k, Len(sorted))

\* line 371: sorted() is stable
RECURSIVE sort_by_axis(_, _)
sort_by_axis(sks, axis) ==
    IF sks = <<>> THEN <<>>
    ELSE insert_sorted(sort_by_axis(SubSeq(sks, 1, Len(sks) - 1), axis),
                       sks[Len(sks)], axis)

\* line 370, mutated: y on ties
split_axis_y_on_ties(xrange_, yrange_) == IF xrange_ > yrange_ THEN 1 ELSE 2

\* line 370: axis = 0 if xrange_ >= yrange_ else 1 (here axis 1 is x, 2 is y)
split_axis(xrange_, yrange_) == IF xrange_ >= yrange_ THEN 1 ELSE 2

\* line 374, mutated: the median sink is left out of both halves
right_half_skip_mid(sinks_sorted, mid) == SubSeq(sinks_sorted, mid + 2, Len(sinks_sorted))

\* line 374: sinks_sorted[mid:]
right_half(sinks_sorted, mid) == SubSeq(sinks_sorted, mid + 1, Len(sinks_sorted))

\* line 373: sinks_sorted[:mid]
left_half(sinks_sorted, mid) == SubSeq(sinks_sorted, 1, mid)

\* line 375-376: the midpoint of the two children's centres
internal_center(left, right) ==
    <<FracHalf(FracAdd(left.center[1], right.center[1])),
      FracHalf(FracAdd(left.center[2], right.center[2]))>>

\* line 358-378
RECURSIVE cluster_sinks(_, _)
cluster_sinks(sks, mleaf) ==
    LET xs == coords(sks, 1)
        ys == coords(sks, 2)
    IN  IF Len(sks) <= mleaf
        THEN [members |-> sks, center |-> <<mean(xs), mean(ys)>>, children |-> <<>>]
        ELSE LET xrange_ == seq_max(xs) - seq_min(xs)
                 yrange_ == seq_max(ys) - seq_min(ys)
                 axis == split_axis(xrange_, yrange_)
                 sinks_sorted == sort_by_axis(sks, axis)
                 mid == Len(sinks_sorted) \div 2
                 left == cluster_sinks(left_half(sinks_sorted, mid), mleaf)
                 right == cluster_sinks(right_half(sinks_sorted, mid), mleaf)
             IN  [members |-> sks, center |-> internal_center(left, right),
                  children |-> <<left, right>>]

\* the node of the tree at a path of child indices
RECURSIVE subtree(_, _)
subtree(tree, path) ==
    IF path = <<>> THEN tree ELSE subtree(tree.children[Head(path)], Tail(path))

\* line 401-406: the calls of build_cts in the order they return: the calls
\* on the children, left to right, before the call on the node itself
RECURSIVE return_order(_, _)
return_order(tree, path) ==
    IF tree.children = <<>> THEN <<path>>
    ELSE return_order(tree.children[1], Append(path, 1))
           \o return_order(tree.children[2], Append(path, 2))
           \o <<path>>

\* line 386, dist((n.x, n.y), center) squared, times the square of the two
\* denominators of the centre (the same factor for every node)
dist2_to_center(n, center) ==
    LET cx == center[1]
        cy == center[2]
        dx == (n.x * cx[2] - cx[1]) * cy[2]
        dy == (n.y * cy[2] - cy[1]) * cx[2]
    IN  dx * dx + dy * dy

NoNode == Node(0, 0, "", "", "")

\* line 380-391, mutated: claimed nodes are not passed over
claim_nearest_any(center, node_list, claimed_set) ==
    LET free == DOMAIN node_list
    IN  IF free = {} THEN NoNode
        ELSE node_list[CHOOSE i \in free : \A j \in free :
                 \/ dist2_to_center(node_list[i], center) < dist2_to_center(node_list[j], center)
                 \/ /\ dist2_to_center(node_list[i], center) = dist2_to_center(node_list[j], center)
                    /\ i <= j]

\* line 380-391: the first of the unclaimed nodes at the least distance
\* (d < bestd is strict), None when every node is claimed
claim_nearest_node(center, node_list, claimed_set) ==
    LET free == {i \in DOMAIN node_list : node_list[i].name \notin claimed_set}
    IN  IF free = {} THEN NoNode
        ELSE node_list[CHOOSE i \in free : \A j \in free :
                 \/ dist2_to_center(node_list[i], center) < dist2_to_center(node_list[j], center)
                 \/ /\ dist2_to_center(node_list[i], center) = dist2_to_center(node_list[j], center)
                    /\ i <= j]

\* line 37-39, squared: both ends are fabric nodes
node_dist2(a, b) == (a.x - b.x) * (a.x - b.x) + (a.y - b.y) * (a.y - b.y)

\* line 403-406: the last assignment's node of every child call that
\* returned assignments
child_nodes_of(parts) ==
    LET got == SelectSeq(parts, LAMBDA part : part # <<>>)
    IN  [i \in DOMAIN got |-> got[i][Len(got[i])].node]

\* line 403-406: child_assigns.extend(child_assigns_part)
RECURSIVE concat(_)
concat(parts) == IF parts = <<>> THEN <<>> ELSE Head(parts) \o concat(Tail(parts))

\* line 430-431, mutated: the children's assignments are dropped with the level
drop_level_all(child_assigns) == <<>>

\* line 430-431: assignments.extend(child_assigns)
drop_level(child_assigns) == child_assigns

\* line 412-429: the assignment of a claimed node
assignment(node, child_nodes, center) ==
    LET segment_lengths == [i \in DOMAIN child_nodes |-> node_dist2(node, child_nodes[i])]
    IN  [node |-> node, children |-> child_nodes, center |-> center,
         wirelength |-> segment_lengths,
         max_segment_length |-> IF segment_lengths # <<>> THEN seq_max(segment_lengths) ELSE 0]

\* main line 1220: cluster_tree = cluster_sinks(sinks, max_leaf)
ClusterSinks ==
    /\ cts_pc = "cluster"
    /\ cluster_tree' = cluster_sinks(sinks, max_leaf)
    /\ cts_todo' = return_order(cluster_tree', <<>>)
    /\ cts_pc' = "build"
    /\ UNCHANGED <<ctsArgs, claimed, cts_ret, cts_assignments>>
    /\ UNCHANGED <<gridVars, nfVars, netlistVars, placerVars, hpVars, saVars, tieVars, restVars>>

\* line 398-401, 433: a call on a node without children returns []
BuildCtsLeaf ==
    /\ cts_pc = "build" /\ cts_todo # <<>>
    /\ subtree(cluster_tree, Head(cts_todo)).children = <<>>
    /\ cts_ret' = DictSet(cts_ret, Head(cts_todo), <<>>)
    /\ cts_todo' = Tail(cts_todo)
    /\ UNCHANGED <<cts_pc, ctsArgs, cluster_tree, claimed, cts_assignments>>
    /\ UNCHANGED <<gridVars, nfVars, netlistVars, placerVars, hpVars, saVars, tieVars, restVars>>

\* the lists the two child calls of the call at path returned
child_parts(path) == <<cts_ret[Append(path, 1)], cts_ret[Append(path, 2)]>>

\* line 408-429: the calls on the children have returned; the nearest
\* unclaimed node is claimed and its assignment follows the children's
BuildCtsClaim ==
    /\ cts_pc = "build" /\ cts_todo # <<>>
    /\ LET path == Head(cts_todo)
           tree == subtree(cluster_tree, path)
           node == claim_nearest_node(tree.center, available_bufs \o available_invs, claimed)
       IN  /\ tree.children # <<>>
           /\ node # NoNode
           /\ claimed' = claimed \cup {node.name}
           /\ cts_ret' = DictSet(cts_ret, path,
                            Append(concat(child_parts(path)),
                                   assignment(node, child_nodes_of(child_parts(path)),
                                              tree.center)))
    /\ cts_todo' = Tail(cts_todo)
    /\ UNCHANGED <<cts_pc, ctsArgs, cluster_tree, cts_assignments>>
    /\ UNCHANGED <<gridVars, nfVars, netlistVars, placerVars, hpVars, saVars, tieVars, restVars>>

\* line 408-411, 430-433: no unclaimed node is left: a warning, and the
\* children's assignments are returned
BuildCtsDrop ==
    /\ cts_pc = "build" /\ cts_todo # <<>>
    /\ LET path == Head(cts_todo)
           tree == subtree(cluster_tree, path)
           node == claim_nearest_node(tree.center, available_bufs \o available_invs, claimed)
       IN  /\ tree.children # <<>>
           /\ node = NoNode
           /\ cts_ret' = DictSet(cts_ret, path, drop_level(concat(child_parts(path))))
    /\ cts_todo' = Tail(cts_todo)
    /\ UNCHANGED <<cts_pc, ctsArgs, cluster_tree, claimed, cts_assignments>>
    /\ UNCHANGED <<gridVars, nfVars, netlistVars, placerVars, hpVars, saVars, tieVars, restVars>>

\* main line 1222: cts_assignments = build_cts(cluster_tree, ...)
BuildCtsReturn ==
    /\ cts_pc = "build" /\ cts_todo = <<>>
    /\ cts_assignments' = cts_ret[<<>>]
    /\ cts_pc' = "done"
    /\ UNCHANGED <<ctsArgs, cluster_tree, claimed, cts_todo, cts_ret>>
    /\ UNCHANGED <<gridVars, nfVars, netlistVars, placerVars, hpVars, saVars, tieVars, restVars>>

(***************************************************************************)
(* eco_genearted.py: guess_ff_cells, assign_conb_per_tile,                 *)
(* get_conb_for_cell, determine_optimal_tie, modify_mapped_json.           *)
(* A dict whose order of iteration matters is a sequence of entries in     *)
(* insertion order: the module's cells are records [name, type,            *)
(* connections], connections are records [pin, net], tile_to_nodes are     *)
(* records [tile, nodes].  A net is the list the JSON has: tokens, Str for *)
(* a net name and Bit for a bit number.  The tests the code makes on the   *)
(* text of a name (lower(), "in", startswith) are the sets of the names of *)
(* the model on which they hold, and a formatted name is looked up in a    *)
(* table.                                                                  *)
(***************************************************************************)
Bit(k) == [isstr |-> FALSE, v |-> k]

Conn(pin, net) == [pin |-> pin, net |-> net]
Cell(name, type, connections) == [name |-> name, type |-> type, connections |-> connections]

TypeNand == "sky130_fd_sc_hd__nand2_1"
TypeInv == "sky130_fd_sc_hd__inv_1"
TypeBuf == "sky130_fd_sc_hd__buf_2"
TypeDff == "sky130_fd_sc_hd__dfxtp_1"
TypeConb == "sky130_fd_sc_hd__conb_1"
TypeClkbuf == "sky130_fd_sc_hd__clkbuf_4"
TypeClkinv == "sky130_fd_sc_hd__clkinv_4"

\* line 83: "df" in ctype and (...), on the types above
is_ff_type(type) == type \in {TypeDff}
\* line 676-677, 686-688: any(s in ctype for s in skip_types)
is_skip_type(type) == type \in {TypeDff, TypeConb, TypeClkbuf, TypeClkinv}
\* line 487: 'conb' in n.cell_type.lower(), on the fabric's cell types
is_conb_node(n) == n.cell_type \in {"CONB"}
\* line 606: "inv" in node.cell_type.lower()
is_inv_node(n) == n.cell_type \in {"INV"}
\* line 589: k.lower() == "clk"
is_clk_pin(pin) == pin \in {"CLK", "clk"}
\* line 591: 'clk' in k.lower()
has_clk(pin) == pin \in {"CLK", "clk", "GCLK"}
\* line 736: pin.lower() in output_pin_keywords or any(k in pin.lower() ...)
is_output_pin(pin) == pin \in {"Y", "X", "Q", "Z"}
\* line 742: n.startswith("tie_")
starts_with_tie(name) ==
    name \in {"tie_low_T0", "tie_high_T0", "tie_low_T1", "tie_high_T1", "tie_off"}
\* line 673: inst.startswith("cts_buf_")
starts_with_cts_buf(name) == name \in {"cts_buf_0", "cts_buf_1"}

\* line 648-649: f"tie_low_{tile_name}", f"tie_high_{tile_name}"
tie_lo_net(tile) == [T0 |-> "tie_low_T0", T1 |-> "tie_low_T1"][tile]
tie_hi_net(tile) == [T0 |-> "tie_high_T0", T1 |-> "tie_high_T1"][tile]
\* line 638, 645: f"conb_{tile_name}", then f"{base}_{i}" for i = 1, 2
conb_names(tile) == [T0 |-> <<"conb_T0", "conb_T0_1", "conb_T0_2">>,
                     T1 |-> <<"conb_T1", "conb_T1_1", "conb_T1_2">>][tile]
\* line 568, 602: f"clk_cts_n{idx}", f"cts_buf_{idx}", idx from 0
clk_cts_net(idx) == <<"clk_cts_n0", "clk_cts_n1">>[idx + 1]
cts_buf_name(idx) == <<"cts_buf_0", "cts_buf_1">>[idx + 1]

\* line 103: sorted(): the order of the instance names of the model
NameOrder == <<"b1", "conb_T0", "cts_buf_0", "ff1", "ff2", "u1", "u2", "u3">>
name_rank(name) == CHOOSE i \in DOMAIN NameOrder : NameOrder[i] = name

\* ---- ordered dicts
Keys(entries, field) == {entries[i][field] : i \in DOMAIN entries}
cell_names(cs) == {cs[i].name : i \in DOMAIN cs}
cell_of(cs, name) == cs[CHOOSE i \in DOMAIN cs : cs[i].name = name]

\* cells[name] = cell: in place when the key exists, else at the end
set_cell(cs, cell) ==
    IF cell.name \in cell_names(cs)
    THEN [i \in DOMAIN cs |-> IF cs[i].name = cell.name THEN cell ELSE cs[i]]
    ELSE Append(cs, cell)

\* cell["connections"][pin] = net, the pin being a key already
set_conn(conns, pin, net) ==
    [i \in DOMAIN conns |-> IF conns[i].pin = pin THEN Conn(pin, net) ELSE conns[i]]

\* netnames.setdefault(net, {"bits": [], ...}); netnames[net]["bits"].append(bit)
add_bit(nn, net, bit) ==
    DictSet(nn, net, Append(IF net \in DOMAIN nn THEN nn[net] ELSE <<>>, bit))

\* netnames.setdefault(net, {"bits": [], ...})
touch_net(nn, net) == IF net \in DOMAIN nn THEN nn ELSE DictSet(nn, net, <<>>)

\* line 79-105: the instances of a flip-flop type; when there is none,
\* the instances with a clock pin; sorted (the cells of the model carry
\* no "attributes")
guess_ff_cells(cs) ==
    LET by_type == {cs[i].name : i \in {j \in DOMAIN cs : is_ff_type(cs[j].type)}}
        by_pin == {cs[i].name : i \in {j \in DOMAIN cs :
                      \E k \in DOMAIN cs[j].connections : has_clk(cs[j].connections[k].pin)}}
        ffs == IF by_type # {} THEN by_type ELSE by_pin
    IN  SelectSeq(NameOrder, LAMBDA n : n \in ffs)

\* line 489-494
conb_entry(conb_node, mf) ==
    [conb_node |-> conb_node, lo_fanout |-> 0, hi_fanout |-> 0, max_fanout |-> mf]

\* line 486-489: the tiles with a CONB node, in the order of tile_to_nodes
conb_tiles(ttn) ==
    LET with == SelectSeq(ttn, LAMBDA t : SelectSeq(t.nodes, is_conb_node) # <<>>)
    IN  [i \in DOMAIN with |-> with[i].tile]

\* line 479-499: the first CONB node of every tile that has one
assign_conb_per_tile(ttn, mf) ==
    LET tiles == SelectSeq(ttn, LAMBDA t : SelectSeq(t.nodes, is_conb_node) # <<>>)
    IN  [t \in {tiles[i].tile : i \in DOMAIN tiles} |->
            LET entry == tiles[CHOOSE i \in DOMAIN tiles : tiles[i].tile = t]
            IN  conb_entry(SelectSeq(entry.nodes, is_conb_node)[1], mf)]

\* line 37-39, squared: from a cell's place to a node
point_dist2(x, y, n) == (x - n.x) * (x - n.x) + (y - n.y) * (y - n.y)

NoTile == ""

\* line 501-513: the first tile, in the order of conb_assignment, whose
\* CONB is at the least distance (d < best_dist is strict)
get_conb_for_cell(cell_x, cell_y, tiles, ca) ==
    IF tiles = <<>> THEN NoTile
    ELSE tiles[CHOOSE i \in DOMAIN tiles : \A j \in DOMAIN tiles :
             LET di == point_dist2(cell_x, cell_y, ca[tiles[i]].conb_node)
                 dj == point_dist2(cell_x, cell_y, ca[tiles[j]].conb_node)
             IN  di < dj \/ (di = dj /\ i <= j)]

\* line 527-528: float('inf'), above every leakage of the model
Inf == 1000000

\* dict.get(key, default)
dict_get(d, key, default) == IF key \in DOMAIN d THEN d[key] ELSE default

\* line 517-535, mutated: equal leakages are tied high
determine_optimal_tie_equal_high(cell_type, pin_name, ldb) ==
    IF ldb = EmptyDict \/ cell_type \notin DOMAIN ldb THEN "tie_low"
    ELSE LET pin_data == dict_get(ldb[cell_type], pin_name, EmptyDict)
             leak_high == dict_get(pin_data, "tie_high", Inf)
             leak_low == dict_get(pin_data, "tie_low", Inf)
         IN  IF leak_low < leak_high THEN "tie_low" ELSE "tie_high"

\* line 517-535
determine_optimal_tie(cell_type, pin_name, ldb) ==
    IF ldb = EmptyDict \/ cell_type \notin DOMAIN ldb THEN "tie_low"
    ELSE LET pin_data == dict_get(ldb[cell_type], pin_name, EmptyDict)
             leak_high == dict_get(pin_data, "tie_high", Inf)
             leak_low == dict_get(pin_data, "tie_low", Inf)
         IN  IF leak_low < leak_high THEN "tie_low"
             ELSE IF leak_high < leak_low THEN "tie_high"
             ELSE "tie_low"

root_net_name == "clk_cts_root"

\* line 555-565: the claimed nodes, or one synthetic root when there is none
\* (its place, the mean of the flip-flops' places, is never looked at)
cts_nodes_of(assigns) ==
    IF assigns # <<>> THEN [i \in DOMAIN assigns |-> assigns[i].node]
    ELSE <<Node(0, 0, "CTS_ROOT_SYN", NoTile, "clkbuf")>>

\* line 568-572: cts_node_net[node.name] = f"clk_cts_n{idx}"; a later node of
\* the same name overwrites an earlier one
cts_node_net(nodes, name) ==
    clk_cts_net((CHOOSE i \in DOMAIN nodes :
                    /\ nodes[i].name = name
                    /\ \A j \in DOMAIN nodes : nodes[j].name = name => j <= i) - 1)

\* line 576-583: the net of the first of the CTS nodes nearest to the
\* flip-flop, of the first CTS node when the flip-flop has no place
dff_net(d, nodes, pm) ==
    IF d \notin DOMAIN pm THEN cts_node_net(nodes, nodes[1].name)
    ELSE LET best == CHOOSE i \in DOMAIN nodes : \A j \in DOMAIN nodes :
                        LET di == point_dist2(pm[d][1], pm[d][2], nodes[i])
                            dj == point_dist2(pm[d][1], pm[d][2], nodes[j])
                        IN  di < dj \/ (di = dj /\ i <= j)
         IN  cts_node_net(nodes, nodes[best].name)

\* line 589-593: the first key that is "clk", else the first that has "clk"
clk_pin_keys(conns) ==
    LET exact == SelectSeq(conns, LAMBDA c : is_clk_pin(c.pin))
    IN  IF exact # <<>> THEN exact ELSE SelectSeq(conns, LAMBDA c : has_clk(c.pin))

\* line 585-598: the clock pin of every flip-flop of the module goes to its
\* CTS net; the state is [cells, netnames]
RECURSIVE rewire_clocks(_, _, _, _)
rewire_clocks(dffs, st, nodes, pm) ==
    IF dffs = <<>> THEN st
    ELSE LET d == Head(dffs)
             keys == IF d \in cell_names(st.cells)
                     THEN clk_pin_keys(cell_of(st.cells, d).connections) ELSE <<>>
         IN  IF keys = <<>> THEN rewire_clocks(Tail(dffs), st, nodes, pm)
             ELSE LET cell == cell_of(st.cells, d)
                      net == dff_net(d, nodes, pm)
                      cell2 == [cell EXCEPT !.connections =
                                   set_conn(@, keys[1].pin, <<Str(net)>>)]
                  IN  rewire_clocks(Tail(dffs),
                          [cells |-> set_cell(st.cells, cell2),
                           netnames |-> add_bit(st.netnames, net, <<d, keys[1].pin>>)],
                          nodes, pm)

\* line 600-622: one buffer instance cts_buf_<idx> per assignment
RECURSIVE add_cts_buffers(_, _, _, _)
add_cts_buffers(idx, assigns, st, nodes) ==
    IF idx >= Len(assigns) THEN st
    ELSE LET node == assigns[idx + 1].node
             buf_type == IF is_inv_node(node) THEN TypeClkinv ELSE TypeClkbuf
             net_out == cts_node_net(nodes, node.name)
             inst_name == cts_buf_name(idx)
             cell == Cell(inst_name, buf_type,
                          <<Conn("A", <<Str(root_net_name)>>), Conn("X", <<Str(net_out)>>)>>)
         IN  add_cts_buffers(idx + 1, assigns,
                 [cells |-> set_cell(st.cells, cell),
                  netnames |-> add_bit(touch_net(st.netnames, root_net_name),
                                       net_out, <<inst_name, "X">>)],
                 nodes)

\* line 567-572: every CTS net gets an entry of netnames
RECURSIVE touch_cts_nets(_, _)
touch_cts_nets(k, nn) ==
    IF k = 0 THEN nn ELSE touch_net(touch_cts_nets(k - 1, nn), clk_cts_net(k - 1))

\* line 640-645: the first of conb_<tile>, conb_<tile>_1, ... no cell has
unique_conb_name(tile, cs) ==
    LET names == conb_names(tile)
    IN  names[CHOOSE i \in DOMAIN names :
                  /\ names[i] \notin cell_names(cs)
                  /\ \A j \in DOMAIN names : names[j] \notin cell_names(cs) => i <= j]

\* line 635-666: a CONB instance and its two tie nets for every tile of
\* conb_assignment; the state is [cells, netnames, conb_instances, tie_nets]
RECURSIVE create_conbs(_, _)
create_conbs(tiles, st) ==
    IF tiles = <<>> THEN st
    ELSE LET tile == Head(tiles)
             name == unique_conb_name(tile, st.cells)
             lo == tie_lo_net(tile)
             hi == tie_hi_net(tile)
         IN  create_conbs(Tail(tiles),
                 [cells |-> set_cell(st.cells,
                                Cell(name, TypeConb,
                                     <<Conn("LO", <<Str(lo)>>), Conn("HI", <<Str(hi)>>)>>)),
                  netnames |-> add_bit(add_bit(st.netnames, lo, <<name, "LO">>),
                                       hi, <<name, "HI">>),
                  conb_instances |-> DictSet(st.conb_instances, tile, name),
                  tie_nets |-> DictSet(st.tie_nets, tile, [lo |-> lo, hi |-> hi])])

\* line 671-674
used_instances(dffs, assigns, cinst, cs) ==
    Range(dffs) \cup {assigns[i].node.name : i \in DOMAIN assigns}
        \cup Range(cinst)
        \cup {n \in cell_names(cs) : starts_with_cts_buf(n)}

\* line 681-703: every cell of the module that is not a used instance and
\* not of a skipped type (the check of the outputs decides nothing)
find_unused(cs, used) ==
    LET keep == SelectSeq(cs, LAMBDA c : c.name \notin used /\ ~is_skip_type(c.type))
    IN  [i \in DOMAIN keep |-> keep[i].name]

\* line 741-743: a non-empty net with a str member that starts with "tie_"
already_tied(net) ==
    \E i \in DOMAIN net : net[i].isstr /\ starts_with_tie(net[i].v)

\* line 750, 757, mutated: one tie too many
fanout_full_off_by_one(fanout, mf) == fanout > mf

\* line 750, 757: tile_conb_info[...] >= tile_conb_info['max_fanout']
fanout_full(fanout, mf) == fanout >= mf

TieIdle ==
    /\ tie_pc = "idle" /\ module_cells = <<>> /\ mapped_before = <<>>
    /\ netnames = EmptyDict /\ tile_to_nodes = <<>> /\ max_fanout = 0
    /\ leakage_db = EmptyDict /\ placement_map = EmptyDict /\ dff_instances = <<>>
    /\ conb_assignment = EmptyDict /\ conb_instances = EmptyDict /\ tie_nets = EmptyDict
    /\ unused_cells = <<>> /\ tie_i = 0 /\ tie_pins = <<>> /\ tie_tile = NoTile
    /\ tied_count = 0 /\ fanout_warnings = <<>>
    /\ power_savings = [tie_high |-> 0, tie_low |-> 0]

OtIdle ==
    /\ ot_pc = "idle" /\ ot_cell_type = "" /\ ot_pin_name = "" /\ ot_ldb = EmptyDict
    /\ ot_result = ""

HtIdle ==
    /\ ht_pc = "idle" /\ ht_names = <<>> /\ ht_cells = EmptyDict /\ ht_dffs = <<>>
    /\ ht_clk_net = <<>> /\ available_buffers = <<>> /\ remaining_buffers = <<>>
    /\ l0_buffers = <<>> /\ ht_i = 0 /\ clock_buffers = <<>>
    /\ current_level_bufs = <<>> /\ level = 0

RestIdle == OtIdle /\ HtIdle

EcoIdle == CtsIdle /\ TieIdle /\ RestIdle

\* main line 1159-1160: dff_instances = guess_ff_cells(cells)
GuessFfCells ==
    /\ tie_pc = "guess_ff"
    /\ dff_instances' = guess_ff_cells(module_cells)
    /\ tie_pc' = "assign_conb"
    /\ UNCHANGED <<tieArgs, module_cells, netnames, conb_assignment, conb_instances,
                   tie_nets, tieLoop>>
    /\ UNCHANGED <<gridVars, nfVars, netlistVars, placerVars, hpVars, saVars, ctsVars, restVars>>

\* main line 1245: conb_assignment = assign_conb_per_tile(tile_to_nodes, max_fanout)
AssignConbPerTile ==
    /\ tie_pc = "assign_conb"
    /\ conb_assignment' = assign_conb_per_tile(tile_to_nodes, max_fanout)
    /\ tie_pc' = "cts_rewire"
    /\ UNCHANGED <<tieArgs, module_cells, netnames, dff_instances, conb_instances,
                   tie_nets, tieLoop>>
    /\ UNCHANGED <<gridVars, nfVars, netlistVars, placerVars, hpVars, saVars, ctsVars, restVars>>

\* modify_mapped_json line 553-624: the clock nets, the flip-flops' clock
\* pins and the buffer instances
CtsRewire ==
    /\ tie_pc = "cts_rewire"
    /\ LET nodes == cts_nodes_of(cts_assignments)
           st0 == [cells |-> module_cells,
                   netnames |-> touch_cts_nets(Len(nodes), netnames)]
           st1 == rewire_clocks(dff_instances, st0, nodes, placement_map)
           st2 == add_cts_buffers(0, cts_assignments, st1, nodes)
       IN  /\ module_cells' = st2.cells
           /\ netnames' = st2.netnames
    /\ tie_pc' = "create_conbs"
    /\ UNCHANGED <<tieArgs, dff_instances, conb_assignment, conb_instances, tie_nets, tieLoop>>
    /\ UNCHANGED <<gridVars, nfVars, netlistVars, placerVars, hpVars, saVars, ctsVars, restVars>>

\* modify_mapped_json line 628-668
CreateConbs ==
    /\ tie_pc = "create_conbs"
    /\ LET st == create_conbs(conb_tiles(tile_to_nodes),
                     [cells |-> module_cells, netnames |-> netnames,
                      conb_instances |-> EmptyDict, tie_nets |-> EmptyDict])
       IN  /\ module_cells' = st.cells
           /\ netnames' = st.netnames
           /\ conb_instances' = st.conb_instances
           /\ tie_nets' = st.tie_nets
    /\ tie_pc' = "find_unused"
    /\ UNCHANGED <<tieArgs, dff_instances, conb_assignment, tieLoop>>
    /\ UNCHANGED <<gridVars, nfVars, netlistVars, placerVars, hpVars, saVars, ctsVars, restVars>>

\* modify_mapped_json line 670-708
FindUnused ==
    /\ tie_pc = "find_unused"
    /\ unused_cells' = find_unused(module_cells,
                           used_instances(dff_instances, cts_assignments,
                                          conb_instances, module_cells))
    /\ tie_i' = 1
    /\ tie_pc' = "cell"
    /\ UNCHANGED <<tieArgs, module_cells, netnames, dff_instances, conb_assignment,
                   conb_instances, tie_nets, tie_pins, tie_tile, tied_count,
                   fanout_warnings, power_savings>>
    /\ UNCHANGED <<gridVars, nfVars, netlistVars, placerVars, hpVars, saVars, ctsVars, restVars>>

\* line 719-731: the tile whose CONB is nearest to the cell's place, (0, 0)
\* when the cell has no place; no tile when no tile has a CONB
tile_of_cell(inst) ==
    LET cell_x == IF inst \in DOMAIN placement_map THEN placement_map[inst][1] ELSE 0
        cell_y == IF inst \in DOMAIN placement_map THEN placement_map[inst][2] ELSE 0
    IN  get_conb_for_cell(cell_x, cell_y, conb_tiles(tile_to_nodes), conb_assignment)

\* line 710-734: the next unused cell: it is passed over when no tile serves
\* it, else its pins are listed
TieCellBegin ==
    /\ tie_pc = "cell" /\ tie_i <= Len(unused_cells)
    /\ LET inst == unused_cells[tie_i]
           tile == tile_of_cell(inst)
           conns == cell_of(module_cells, inst).connections
       IN  IF tile = NoTile \/ tile \notin DOMAIN tie_nets \/ conns = <<>>
           THEN /\ tie_i' = tie_i + 1
                /\ UNCHANGED <<tie_pc, tie_pins, tie_tile>>
           ELSE /\ tie_pins' = conns
                /\ tie_tile' = tile
                /\ tie_pc' = "pin"
                /\ UNCHANGED tie_i
    /\ UNCHANGED <<tieArgs, module_cells, netnames, dff_instances, conb_assignment,
                   conb_instances, tie_nets, unused_cells, tied_count, fanout_warnings,
                   power_savings>>
    /\ UNCHANGED <<gridVars, nfVars, netlistVars, placerVars, hpVars, saVars, ctsVars, restVars>>

\* line 734: the loop over list(conns.items()) moves on; after the last pin
\* the loop over the cells moves on
NextPin ==
    /\ tie_pins' = Tail(tie_pins)
    /\ IF Tail(tie_pins) = <<>>
       THEN tie_pc' = "cell" /\ tie_i' = tie_i + 1
       ELSE UNCHANGED <<tie_pc, tie_i>>
    /\ UNCHANGED <<tieArgs, dff_instances, conb_instances, tie_nets, unused_cells, tie_tile>>
    /\ UNCHANGED <<gridVars, nfVars, netlistVars, placerVars, hpVars, saVars, ctsVars, restVars>>

\* line 735-743: an output pin or a pin already on a tie net
pin_passed_over(conn) == is_output_pin(conn.pin) \/ already_tied(conn.net)

\* line 746: the tie of the pin the loop is at
optimal_tie ==
    determine_optimal_tie(cell_of(module_cells, unused_cells[tie_i]).type,
                          Head(tie_pins).pin, leakage_db)

\* line 749, 756: the counter of the chosen polarity
fanout_key(tie) == IF tie = "tie_low" THEN "lo_fanout" ELSE "hi_fanout"

\* line 735-743
TiePinSkip ==
    /\ tie_pc = "pin"
    /\ pin_passed_over(Head(tie_pins))
    /\ NextPin
    /\ UNCHANGED <<module_cells, netnames, conb_assignment, tied_count, fanout_warnings,
                   power_savings>>

\* line 749-752, 756-759: the counter of the chosen polarity has reached
\* max_fanout: a warning, and the pin is left as it is
TiePinFanoutExceeded ==
    /\ tie_pc = "pin"
    /\ ~pin_passed_over(Head(tie_pins))
    /\ LET info == conb_assignment[tie_tile]
       IN  /\ fanout_full(info[fanout_key(optimal_tie)], info.max_fanout)
           /\ fanout_warnings' = Append(fanout_warnings,
                                        [tile |-> tie_tile, tie |-> optimal_tie])
    /\ NextPin
    /\ UNCHANGED <<module_cells, netnames, conb_assignment, tied_count, power_savings>>

\* line 749-769: the pin goes to the tile's tie net of the chosen polarity
TiePinTie ==
    /\ tie_pc = "pin"
    /\ ~pin_passed_over(Head(tie_pins))
    /\ LET info == conb_assignment[tie_tile]
           tie == optimal_tie
           inst == unused_cells[tie_i]
           pin == Head(tie_pins).pin
           tie_net == IF tie = "tie_low" THEN tie_nets[tie_tile].lo ELSE tie_nets[tie_tile].hi
           cell == cell_of(module_cells, inst)
       IN  /\ ~fanout_full(info[fanout_key(tie)], info.max_fanout)
           /\ conb_assignment' = [conb_assignment EXCEPT ![tie_tile][fanout_key(tie)] = @ + 1]
           /\ power_savings' = [power_savings EXCEPT ![tie] = @ + 1]
           /\ module_cells' = set_cell(module_cells,
                                 [cell EXCEPT !.connections = set_conn(@, pin, <<Str(tie_net)>>)])
           /\ netnames' = IF tie_net \in DOMAIN netnames
                             /\ <<inst, pin>> \in Range(netnames[tie_net])
                          THEN netnames
                          ELSE add_bit(netnames, tie_net, <<inst, pin>>)
           /\ tied_count' = tied_count + 1
    /\ NextPin
    /\ UNCHANGED fanout_warnings

\* line 710, 772-803: no unused cell is left
TieReturn ==
    /\ tie_pc = "cell" /\ tie_i > Len(unused_cells)
    /\ tie_pc' = "done"
    /\ UNCHANGED <<tieArgs, module_cells, netnames, dff_instances, conb_assignment,
                   conb_instances, tie_nets, tieLoop>>
    /\ UNCHANGED <<gridVars, nfVars, netlistVars, placerVars, hpVars, saVars, ctsVars, restVars>>

(***************************************************************************)
(* SpecNearest: one call of find_nearest_free on a bounded family of       *)
(* inputs.  The occupied sets are those with at most two occupied or at    *)
(* most two free sites, on every grid up to MaxSitesX x MaxSitesY, and     *)
(* those with at most one free site on the 10 x 10 grid of the scenario.   *)
(***************************************************************************)
UpToTwo(S) == {{}} \cup {{a, b} : a \in S, b \in S}

OccupiedSets(nx, ny) ==
    LET S == AllSites(nx, ny)
    IN  IF nx <= MaxSitesX /\ ny <= MaxSitesY
        THEN UpToTwo(S) \cup {S \ F : F \in UpToTwo(S)}
        ELSE {S} \cup {S \ {a} : a \in S}

\* the scenario's grid has square sites only
NearestDims(nx, ny) ==
    IF nx <= MaxSitesX /\ ny <= MaxSitesY THEN SiteDims ELSE {<<1, 1>>}

NearestGrids == ((1 .. MaxSitesX) \X (1 .. MaxSitesY)) \cup {<<10, 10>>}

InitNearest ==
    /\ \E g \in NearestGrids :
          /\ sites_x = g[1]
          /\ sites_y = g[2]
          /\ occupied \in OccupiedSets(g[1], g[2])
          /\ nf_start \in AllSites(g[1], g[2])
          /\ \E d \in NearestDims(g[1], g[2]) : site_w = d[1] /\ site_h = d[2]
    /\ nf_pc = "call"
    /\ nf_result = NoFreeSite
    /\ PlacerIdle /\ HpwlIdle /\ SaIdle /\ EcoIdle

CallNearest ==
    /\ nf_pc = "call"
    /\ nf_result' = find_nearest_free(nf_start, occupied, sites_x, sites_y,
                                      site_w, site_h)
    /\ nf_pc' = "done"
    /\ UNCHANGED <<gridVars, nf_start, netlistVars, ecoVars, placerVars, hpVars, saVars>>

NextNearest == CallNearest

SpecNearest == InitNearest /\ [][NextNearest]_vars

(***************************************************************************)
(* SpecPlace: main() line 287-302, run_seed then run_grow from an empty    *)
(* occupancy, on a bounded family of netlists, pin lists and grids.  The   *)
(* netlists are those logical_parser.py writes: every member of a net is   *)
(* the name of a cell of logical["cells"] (a cell may occur more than once *)
(* in a net).                                                              *)
(***************************************************************************)
PlacerCells == {"a", "b", "c", "d"}

RECURSIVE SeqsUpTo(_, _)
SeqsUpTo(S, n) ==
    IF n = 0 THEN {<<>>}
    ELSE LET shorter == SeqsUpTo(S, n - 1)
         IN  shorter \cup {Append(q, x) : q \in shorter, x \in S}

\* net n1 has up to MaxNetLen members, net n2 is a two-pin net at most
PlacerNets ==
    LET toks == {Str(c) : c \in PlacerCells}
    IN  {[n1 |-> l1, n2 |-> l2] : l1 \in SeqsUpTo(toks, MaxNetLen),
                                  l2 \in SeqsUpTo(toks, 2)}

Pin(name, x, y, status) == [name |-> name, x_um |-> x, y_um |-> y, status |-> status]

\* <<pins, ports>>: no fixed pin; one fixed and one floating pin; two fixed
\* pins on one spot; two fixed pins that reach the same net; a port whose
\* bit names no net and a fixed pin without a port
PinConfigs ==
    { <<  <<Pin("p1", 0, 0, "PLACED")>>,
          [p1 |-> <<"n1">>] >>,
      <<  <<Pin("p1", 0, 0, "FIXED"), Pin("p2", 9, 9, "PLACED")>>,
          [p1 |-> <<"n1">>, p2 |-> <<"n2">>] >>,
      <<  <<Pin("p1", 1, 1, "FIXED"), Pin("p2", 1, 1, "FIXED")>>,
          [p1 |-> <<"n1">>, p2 |-> <<"n2">>] >>,
      <<  <<Pin("p2", 9, 0, "FIXED"), Pin("p1", 0, 2, "FIXED")>>,
          [p1 |-> <<"n1", "n2">>, p2 |-> <<"n1">>] >>,
      <<  <<Pin("p3", 2, 0, "FIXED"), Pin("p1", 0, 9, "FIXED")>>,
          [p1 |-> <<"n9", "n2">>] >> }

\* 2 x 2 is too small for the four cells and the pins, 3 x 2 holds them
\* exactly, 4 x 3 leaves room
PlacerGrids == {<<2, 2>>, <<3, 2>>, <<4, 3>>}
PlacerDims == {<<1, 1>>, <<1, 3>>}

InitPlace ==
    /\ \E g \in PlacerGrids : sites_x = g[1] /\ sites_y = g[2]
    /\ \E d \in PlacerDims : site_w = d[1] /\ site_h = d[2]
    /\ occupied = {}
    /\ cells = PlacerCells
    /\ nets \in PlacerNets
    /\ \E pc \in PinConfigs : pins = pc[1] /\ ports = pc[2]
    /\ pl_pc = "seed_pin"
    /\ placements = EmptyDict /\ pin_site_map = EmptyDict
    /\ pin_idx = 1 /\ cell_idx = 0
    /\ unplaced = {} /\ placed_count = EmptyDict /\ buckets = EmptyDict
    /\ max_bucket = 0
    /\ NearestIdle /\ HpwlIdle /\ SaIdle /\ EcoIdle

NextPlace ==
    \/ SeedPlacePin
    \/ SeedCell
    \/ SeedPinDone
    \/ GrowStart
    \/ GrowFromBucket
    \/ GrowFallback
    \/ GrowReturn

SpecPlace == InitPlace /\ [][NextPlace]_vars

(***************************************************************************)
(* SpecPlaceFair: the same run on the netlists of SpecPlace whose nets     *)
(* hold the cells a, b and c only (d is in no net) and on square sites,    *)
(* with the fairness of a sequential program: a step that can be taken is  *)
(* taken (the weak fairness of NextPlace, stated on the variables that     *)
(* every step changes).                                                    *)
(***************************************************************************)
FairNets ==
    {n \in PlacerNets : Range(StrMembers(n.n1)) \cup Range(StrMembers(n.n2))
                            \subseteq {"a", "b", "c"}}

InitPlaceFair == InitPlace /\ nets \in FairNets /\ site_w = 1 /\ site_h = 1

(***************************************************************************)
(* SpecPlaceWide: the same run with room for every cell (the 4 x 3 grid,   *)
(* square sites), the pin lists that begin with p1, and a net n1 of up to  *)
(* MaxNetLen + 1 members, so that cells with as many placed neighbours and *)
(* different degrees are in one bucket.                                    *)
(***************************************************************************)
WideNets ==
    LET toks == {Str(c) : c \in PlacerCells}
    IN  {[n1 |-> l1, n2 |-> l2] : l1 \in SeqsUpTo(toks, MaxNetLen + 1),
                                  l2 \in SeqsUpTo(toks, 2)}

InitPlaceWide ==
    /\ sites_x = 4 /\ sites_y = 3 /\ site_w = 1 /\ site_h = 1
    /\ occupied = {}
    /\ cells = PlacerCells
    /\ nets \in WideNets
    /\ \E pc \in {q \in PinConfigs : q[1][1].name = "p1"} : pins = pc[1] /\ ports = pc[2]
    /\ pl_pc = "seed_pin"
    /\ placements = EmptyDict /\ pin_site_map = EmptyDict
    /\ pin_idx = 1 /\ cell_idx = 0
    /\ unplaced = {} /\ placed_count = EmptyDict /\ buckets = EmptyDict
    /\ max_bucket = 0
    /\ NearestIdle /\ HpwlIdle /\ SaIdle /\ EcoIdle

SpecPlaceWide == InitPlaceWide /\ [][NextPlace]_vars

\* the guards of NextPlace: run_seed's loops have a next step at every
\* position, run_grow's loop has one while it has a cell to take
CanStep ==
    \/ pl_pc \in {"seed_pin", "seed_cells"}
    \/ /\ pl_pc = "grow"
       /\ \/ unplaced = {}
          \/ LET mb == lower_max_bucket(max_bucket, buckets)
             IN  IF mb > 0 THEN MaxDegree(buckets[mb]) # {} ELSE MaxDegree(unplaced) # {}

\* what every step of NextPlace changes: the position in the program, in
\* run_seed's two loops, or the set run_grow's loop runs on
progressVars == <<pl_pc, pin_idx, cell_idx, unplaced>>

\* a step of NextPlace, as far as progressVars shows it
PlaceStep ==
    /\ CanStep
    /\ pl_pc' \in {"seed_pin", "seed_cells", "grow", "done", "raised", "zero_division"}
    /\ pin_idx' \in {pin_idx, pin_idx + 1}
    /\ cell_idx' \in {cell_idx, cell_idx + 1, 1}
    /\ unplaced' \in SUBSET cells

\* run_seed and run_grow are one sequential program: while a step can be
\* taken, one is taken
SpecPlaceFair == InitPlaceFair /\ [][NextPlace]_vars /\ WF_progressVars(PlaceStep)

(***************************************************************************)
(* SpecHpwl: one call of total_hpwl (sa.py) or of the weighted total_hpwl  *)
(* (bonus/sa_with_weights.py).  Members are the names a, b, c (placed or   *)
(* not) and a non-str token; net n1 has up to MaxMembers members, net n2   *)
(* up to two.                                                              *)
(***************************************************************************)
HpwlNames == {"a", "b", "c"}
HpwlSites == {<<1, 1>>, <<2, 2>>, <<3, 3>>, <<3, 1>>}

HpwlNets ==
    LET toks == {Str(c) : c \in HpwlNames} \cup {NonStr}
    IN  {[n1 |-> l1, n2 |-> l2] : l1 \in SeqsUpTo(toks, MaxMembers),
                                  l2 \in SeqsUpTo(toks, 2)}

\* every placement of a subset of the names
HpwlPlacements ==
    UNION {[D -> {Site(x) : x \in HpwlSites}] : D \in SUBSET HpwlNames}

\* no weights; a weight for n1 only; a weight for n1 and a bad one for n2
HpwlWeights ==
    {EmptyDict, [n1 |-> Weight(2)], [n1 |-> Weight(3), n2 |-> BadWeight]}

InitHpwl ==
    /\ hp_pc = "call"
    /\ hp_nets \in HpwlNets
    /\ hp_placements \in HpwlPlacements
    /\ hp_weights = EmptyDict
    /\ hp_result = 0
    /\ GridIdle /\ NearestIdle /\ PlacerIdle /\ SaIdle /\ EcoIdle

CallTotalHpwl ==
    /\ hp_pc = "call"
    /\ hp_result' = total_hpwl(hp_nets, hp_placements)
    /\ hp_pc' = "done"
    /\ UNCHANGED <<hp_nets, hp_placements, hp_weights>>
    /\ UNCHANGED <<gridVars, nfVars, netlistVars, ecoVars, placerVars, saVars>>

CallTotalHpwlWeighted ==
    /\ hp_pc = "call"
    /\ \E nw \in HpwlWeights :
          /\ hp_weights' = nw
          /\ hp_result' = total_hpwl_weighted(hp_nets, hp_placements, nw)
    /\ hp_pc' = "done_weighted"
    /\ UNCHANGED <<hp_nets, hp_placements>>
    /\ UNCHANGED <<gridVars, nfVars, netlistVars, ecoVars, placerVars, saVars>>

NextHpwl == CallTotalHpwl \/ CallTotalHpwlWeighted

SpecHpwl == InitHpwl /\ [][NextHpwl]_vars

(***************************************************************************)
(* SpecSA: run_sa (sa.py) from line 92 on, over a bounded family of        *)
(* placements, nets and parameters.  With alpha = 1/2 and T_min = 1/4 the  *)
(* temperature starts at 2 (three outer steps), at 1 (two) or at T_min     *)
(* (none).                                                                 *)
(***************************************************************************)
SaCells == {"a", "b", "c"}
SaSites == {<<0, 0>>, <<2, 0>>, <<1, 1>>, <<2, 1>>}

\* three cells on distinct sites, as the placer leaves them; three cells
\* of which two share a site; a single cell
SaPlacements ==
    {pl \in [SaCells -> {Site(x) : x \in SaSites}] :
        \A c1 \in SaCells, c2 \in SaCells : pl[c1] = pl[c2] => c1 = c2}
    \cup {[c \in SaCells |-> Site(IF c = "c" THEN <<2, 1>> ELSE <<0, 0>>)]}
    \cup {[c \in {"a"} |-> Site(<<0, 0>>)]}

SaNets ==
    { [n1 |-> <<Str("a"), Str("b")>>, n2 |-> <<Str("b"), Str("c")>>],
      [n1 |-> <<Str("a"), Str("c")>>, n2 |-> <<>>],
      [n1 |-> <<Str("c"), NonStr, Str("a"), Str("z")>>, n2 |-> <<Str("b"), Str("b")>>] }

SaParams ==
    [T_initial : {<<1, 4>>, <<1, 1>>, <<2, 1>>},
     alpha : {<<1, 2>>},
     moves_per_temp : 0 .. MaxMoves,
     p_refine : {<<0, 1>>, <<1, 2>>, <<1, 1>>},
     W_initial : {None, <<1, 1>>},
     beta : {None},
     T_min : {<<1, 4>>}]

\* the objects of an argument of value pl: an inner dict and a site list
\* for each cell, as run_seed and run_grow build them; and, where cells a
\* and b have the same site, also one list that both inner dicts refer to
CellRank == [a |-> 1, b |-> 2, c |-> 3]
SaObjects(pl) ==
    LET ids == {CellRank[c] : c \in DOMAIN pl}
        cell(i) == CHOOSE c \in DOMAIN pl : CellRank[c] = i
        obj == [c \in DOMAIN pl |-> CellRank[c]]
        own == PlObjects(obj, [i \in ids |-> Site(i)], [i \in ids |-> pl[cell(i)].site])
        shared == PlObjects(obj,
                            [i \in ids |-> Site(IF i = 2 THEN 1 ELSE i)],
                            [i \in ids \ {2} |-> pl[cell(i)].site])
    IN  IF {"a", "b"} \subseteq DOMAIN pl /\ pl["a"].site = pl["b"].site
        THEN {own, shared} ELSE {own}

\* line 92-100: current is a copy of the argument, the best is the start
InitSA ==
    /\ sites_x = 3 /\ sites_y = 2 /\ site_w = 1 /\ site_h = 1 /\ occupied = {}
    /\ sa_params \in SaParams
    /\ sa_nets \in SaNets
    /\ sa_placements \in SaPlacements
    /\ \E arg \in SaObjects(sa_placements) :
          LET cur == deepcopy(arg.obj, arg.dicts, arg.lists)
              best == deepcopy(cur.obj, cur.dicts, cur.lists)
          IN  /\ placements_obj = arg.obj
              /\ current_obj = cur.obj
              /\ best_obj = best.obj
              /\ cell_dicts = best.dicts
              /\ site_lists = best.lists
    /\ current = value_of(current_obj, cell_dicts, site_lists)
    /\ accept = FALSE
    /\ T = sa_params.T_initial
    /\ W = W_default(sa_params, sites_x, sites_y)
    /\ current_cost = total_hpwl(sa_nets, sa_placements)
    /\ best_cost = current_cost
    /\ best_place = value_of(best_obj, cell_dicts, site_lists)
    /\ min_accepted = current_cost
    /\ move_no = 0
    /\ sa_pc = "run"
    /\ NearestIdle /\ PlacerIdle /\ HpwlIdle /\ EcoIdle

NextSA == RefineMove \/ ExploreMove \/ MoveRaises \/ CoolDown \/ SaReturn

SpecSA == InitSA /\ [][NextSA]_vars

(***************************************************************************)
(* SpecSAWeighted: run_sa of bonus/sa_with_weights.py from line 62 on,     *)
(* over the placements and nets of SpecSA, with and without net weights.   *)
(* The steps that do not differ from sa.py's (the raise for fewer than two *)
(* cells, the cooling, the return) are those of SpecSA.                    *)
(***************************************************************************)
SaWeightedParams ==
    [T_initial : {<<1, 4>>, <<1, 1>>, <<2, 1>>},
     alpha : {<<1, 2>>},
     moves_per_temp : 0 .. MaxMoves,
     p_refine : {<<0, 1>>, <<1, 2>>, <<1, 1>>},
     W_initial : {None},
     beta : {None},
     T_min : {<<1, 4>>},
     net_weights : {EmptyDict, [n1 |-> Weight(2)], [n1 |-> Weight(3), n2 |-> BadWeight]}]

\* sa_with_weights.py line 62-70
InitSAWeighted ==
    /\ sites_x = 3 /\ sites_y = 2 /\ site_w = 1 /\ site_h = 1 /\ occupied = {}
    /\ sa_params \in SaWeightedParams
    /\ sa_nets \in SaNets
    /\ sa_placements \in SaPlacements
    /\ \E arg \in SaObjects(sa_placements) :
          LET cur == deepcopy(arg.obj, arg.dicts, arg.lists)
              best == deepcopy(cur.obj, cur.dicts, cur.lists)
          IN  /\ placements_obj = arg.obj
              /\ current_obj = cur.obj
              /\ best_obj = best.obj
              /\ cell_dicts = best.dicts
              /\ site_lists = best.lists
    /\ current = value_of(current_obj, cell_dicts, site_lists)
    /\ accept = FALSE
    /\ T = sa_params.T_initial
    /\ W = W_default(sa_params, sites_x, sites_y)
    /\ current_cost = total_hpwl_weighted(sa_nets, sa_placements, sa_params.net_weights)
    /\ best_cost = current_cost
    /\ best_place = value_of(best_obj, cell_dicts, site_lists)
    /\ min_accepted = current_cost
    /\ move_no = 0
    /\ sa_pc = "run"
    /\ NearestIdle /\ PlacerIdle /\ HpwlIdle /\ EcoIdle

NextSAWeighted ==
    WeightedRefineMove \/ WeightedExploreMove \/ MoveRaises \/ CoolDown \/ SaReturn

SpecSAWeighted == InitSAWeighted /\ [][NextSAWeighted]_vars

\* a step of run_sa can be taken exactly until the call has returned or
\* raised, and every step shows in saProgress
SaCanStep == sa_pc = "run"
saProgress == <<sa_pc, move_no, T>>

\* a step of NextSA, as far as saProgress shows it
SaStep ==
    /\ SaCanStep
    /\ sa_pc' \in {"run", "done", "raised"}
    /\ move_no' \in {move_no, move_no + 1, 0}
    /\ T' \in {T, FracMul(T, sa_params.alpha)}

\* run_sa is one sequential call: while a step can be taken, one is taken
SpecSAFair == InitSA /\ [][NextSA]_vars /\ WF_saProgress(SaStep)

(***************************************************************************)
(* SpecSearchAndPlace: the calls of SpecNearest together with the runs of  *)
(* SpecPlace.                                                              *)
(***************************************************************************)
SpecSearchAndPlace ==
    (InitNearest \/ InitPlace) /\ [][NextNearest \/ NextPlace]_vars

(***************************************************************************)
(* SpecCluster: one call of cluster_sinks on every list of up to MaxSinks  *)
(* sinks on six spots (the four corners of the scenario, a spot next to a  *)
(* corner and an inner spot), sink i named d<i> as main names them after   *)
(* distinct flip-flops, with max_leaf from 1 to MaxLeaf.                   *)
(***************************************************************************)
MaxSinks == 4
MaxLeaf == 3

SinkNames == <<"d1", "d2", "d3", "d4", "d5", "d6">>
SinkSpots == {<<0, 0>>, <<10, 0>>, <<0, 10>>, <<10, 10>>, <<1, 0>>, <<3, 7>>}

\* the sink lists of length n over the spots
RECURSIVE SinkListsOfLen(_, _)
SinkListsOfLen(spots, n) ==
    IF n = 0 THEN {<<>>}
    ELSE {Append(q, <<p[1], p[2], SinkNames[n]>>) :
             q \in SinkListsOfLen(spots, n - 1), p \in spots}

SinkLists(spots, n) == UNION {SinkListsOfLen(spots, k) : k \in 0 .. n}

InitCluster ==
    /\ cts_pc = "cluster"
    /\ sinks \in SinkLists(SinkSpots, MaxSinks)
    /\ max_leaf \in 1 .. MaxLeaf
    /\ cluster_tree = EmptyDict
    /\ available_bufs = <<>> /\ available_invs = <<>> /\ claimed = {}
    /\ cts_todo = <<>> /\ cts_ret = EmptyDict /\ cts_assignments = <<>>
    /\ GridIdle /\ NearestIdle /\ PlacerIdle /\ HpwlIdle /\ SaIdle /\ TieIdle /\ RestIdle

NextCluster == ClusterSinks

SpecCluster == InitCluster /\ [][NextCluster]_vars

(***************************************************************************)
(* SpecCts: main's clock-tree run: cluster_sinks, then build_cts with the  *)
(* claimed set empty.  As in main, available_bufs is the buffers followed  *)
(* by the inverters and available_invs the inverters again.  The pools:    *)
(* none; fewer nodes than the tree has levels; two nodes on one spot; two  *)
(* nodes at one distance of a centre; enough nodes for every level.        *)
(***************************************************************************)
CtsSpots == {<<0, 0>>, <<10, 0>>, <<1, 10>>}

Buf(x, y, name) == Node(x, y, name, "T0", "BUF")
Inv(x, y, name) == Node(x, y, name, "T0", "INV")

\* <<buffers, inverters>> of the fabric
CtsPools ==
    { << <<>>, <<>> >>,
      << <<Buf(0, 0, "b1")>>, <<Inv(5, 5, "i1")>> >>,
      << <<Buf(2, 2, "b1"), Buf(2, 2, "b2")>>, <<>> >>,
      << <<Buf(0, 5, "b1"), Buf(10, 5, "b2")>>, <<Inv(5, 0, "i1")>> >>,
      << <<Buf(0, 0, "b1"), Buf(10, 0, "b2")>>, <<Inv(5, 5, "i1"), Inv(1, 10, "i2")>> >> }

InitCts ==
    /\ cts_pc = "cluster"
    /\ sinks \in SinkLists(CtsSpots, MaxSinks)
    /\ max_leaf \in 1 .. 2
    /\ cluster_tree = EmptyDict
    /\ \E pool \in CtsPools :
          /\ available_bufs = pool[1] \o pool[2]
          /\ available_invs = pool[2]
    /\ claimed = {}
    /\ cts_todo = <<>> /\ cts_ret = EmptyDict /\ cts_assignments = <<>>
    /\ GridIdle /\ NearestIdle /\ PlacerIdle /\ HpwlIdle /\ SaIdle /\ TieIdle /\ RestIdle

NextCts ==
    \/ ClusterSinks
    \/ BuildCtsLeaf
    \/ BuildCtsClaim
    \/ BuildCtsDrop
    \/ BuildCtsReturn

SpecCts == InitCts /\ [][NextCts]_vars

(***************************************************************************)
(* SpecTie: main's tie-off run: guess_ff_cells, assign_conb_per_tile and   *)
(* modify_mapped_json, on every mapped netlist of up to MaxTieCells cells  *)
(* out of: a flip-flop; a NAND and an inverter; a NAND with an input on a  *)
(* tie net already and an input on no net; a buffer named as a fabric node *)
(* that CTS claims; a buffer named conb_T0; a buffer with a gated clock    *)
(* pin.  max_fanout is 0 .. MaxFanout.  The fabric has no tile, or a tile  *)
(* without CONB and a tile with two, or two tiles with a CONB each.        *)
(***************************************************************************)
MaxTieCells == 3
MaxFanout == 2

CellCatalogue ==
    { Cell("ff1", TypeDff, <<Conn("CLK", <<Bit("2")>>), Conn("D", <<Bit("3")>>),
                             Conn("Q", <<Bit("4")>>)>>),
      Cell("u1", TypeNand, <<Conn("A", <<Bit("5")>>), Conn("B", <<Bit("6")>>),
                             Conn("Y", <<Bit("7")>>)>>),
      Cell("u2", TypeInv, <<Conn("A", <<Bit("7")>>), Conn("Y", <<Bit("3")>>)>>),
      Cell("u3", TypeNand, <<Conn("A", <<Str("tie_off")>>), Conn("B", <<>>),
                             Conn("Y", <<Bit("8")>>)>>),
      Cell("b1", TypeBuf, <<Conn("A", <<Bit("4")>>), Conn("X", <<Bit("9")>>)>>),
      Cell("conb_T0", TypeBuf, <<Conn("A", <<Bit("2")>>)>>),
      Cell("ff2", TypeBuf, <<Conn("GCLK", <<Bit("2")>>), Conn("A", <<Bit("3")>>)>>) }

\* the lists of up to n cells of distinct names
RECURSIVE CellLists(_)
CellLists(n) ==
    IF n = 0 THEN {<<>>}
    ELSE LET shorter == CellLists(n - 1)
         IN  shorter \cup {Append(q, c) : q \in {r \in shorter : Len(r) = n - 1},
                                          c \in CellCatalogue}

MappedNetlists == {q \in CellLists(MaxTieCells) : \A i, j \in DOMAIN q : q[i].name = q[j].name => i = j}

Tile(name, nodes) == [tile |-> name, nodes |-> nodes]

TileConfigs ==
    { <<>>,
      << Tile("T2", <<Node(5, 5, "n2", "T2", "NAND")>>),
         Tile("T0", <<Node(3, 3, "n0", "T0", "NAND"), Node(0, 0, "c0", "T0", "CONB"),
                      Node(1, 1, "c0b", "T0", "CONB")>>) >>,
      << Tile("T0", <<Node(0, 0, "c0", "T0", "CONB")>>),
         Tile("T1", <<Node(10, 0, "c1", "T1", "CONB")>>) >> }

LeakageTables ==
    { EmptyDict,
      (TypeNand :> ("A" :> ("tie_low" :> 1 @@ "tie_high" :> 2)
                    @@ "B" :> ("tie_high" :> 1 @@ "tie_low" :> 3))
       @@ TypeInv :> ("A" :> ("tie_high" :> 5))) }

PlacementMap == ("u1" :> <<1, 0>> @@ "u2" :> <<9, 0>> @@ "ff1" :> <<2, 2>> @@ "b1" :> <<9, 1>>)

CtsResults ==
    { <<>>,
      << assignment(Buf(9, 1, "b1"), <<>>, << <<5, 1>>, <<5, 1>> >>),
         assignment(Inv(1, 1, "i1"), <<Buf(9, 1, "b1")>>, << <<5, 1>>, <<5, 1>> >>) >> }

InitTie ==
    /\ tie_pc = "guess_ff"
    /\ module_cells \in MappedNetlists
    /\ mapped_before = module_cells
    /\ netnames = EmptyDict
    /\ tile_to_nodes \in TileConfigs
    /\ max_fanout \in 0 .. MaxFanout
    /\ leakage_db \in LeakageTables
    /\ placement_map = PlacementMap
    /\ dff_instances = <<>>
    /\ conb_assignment = EmptyDict /\ conb_instances = EmptyDict /\ tie_nets = EmptyDict
    /\ unused_cells = <<>> /\ tie_i = 0 /\ tie_pins = <<>> /\ tie_tile = NoTile
    /\ tied_count = 0 /\ fanout_warnings = <<>>
    /\ power_savings = [tie_high |-> 0, tie_low |-> 0]
    /\ cts_pc = "done"
    /\ cts_assignments \in CtsResults
    /\ claimed = {cts_assignments[i].node.name : i \in DOMAIN cts_assignments}
    /\ sinks = <<>> /\ max_leaf = 1 /\ cluster_tree = EmptyDict
    /\ available_bufs = <<>> /\ available_invs = <<>>
    /\ cts_todo = <<>> /\ cts_ret = EmptyDict
    /\ GridIdle /\ NearestIdle /\ PlacerIdle /\ HpwlIdle /\ SaIdle /\ RestIdle

NextTie ==
    \/ GuessFfCells
    \/ AssignConbPerTile
    \/ CtsRewire
    \/ CreateConbs
    \/ FindUnused
    \/ TieCellBegin
    \/ TiePinSkip
    \/ TiePinFanoutExceeded
    \/ TiePinTie
    \/ TieReturn

SpecTie == InitTie /\ [][NextTie]_vars

(***************************************************************************)
(* SpecOptimalTie: one call of determine_optimal_tie (eco_genearted.py)    *)
(* over a bounded family of leakage tables: no table, a cell type without  *)
(* pins, one pin with every combination of present and missing values, and *)
(* the tables of SpecTie.                                                  *)
(***************************************************************************)
\* largest leakage value of a table
MaxLeak == 2

PinData ==
    {EmptyDict}
    \cup {("tie_high" :> v) : v \in 1 .. MaxLeak}
    \cup {("tie_low" :> v) : v \in 1 .. MaxLeak}
    \cup {("tie_high" :> v @@ "tie_low" :> w) : v \in 1 .. MaxLeak, w \in 1 .. MaxLeak}

OtTables ==
    LeakageTables
    \cup {(TypeNand :> EmptyDict)}
    \cup {(TypeNand :> ("A" :> d)) : d \in PinData}

InitOptimalTie ==
    /\ ot_pc = "call"
    /\ ot_cell_type \in {TypeNand, TypeInv, TypeBuf}
    /\ ot_pin_name \in {"A", "B"}
    /\ ot_ldb \in OtTables
    /\ ot_result = ""
    /\ GridIdle /\ NearestIdle /\ PlacerIdle /\ HpwlIdle /\ SaIdle /\ CtsIdle /\ TieIdle
    /\ HtIdle

\* line 517-535: the call returns
CallDetermineOptimalTie ==
    /\ ot_pc = "call"
    /\ ot_result' = determine_optimal_tie(ot_cell_type, ot_pin_name, ot_ldb)
    /\ ot_pc' = "done"
    /\ UNCHANGED <<ot_cell_type, ot_pin_name, ot_ldb>>
    /\ UNCHANGED <<gridVars, nfVars, netlistVars, placerVars, hpVars, saVars, ctsVars, tieVars,
                   htVars>>

NextOptimalTie == CallDetermineOptimalTie

SpecOptimalTie == InitOptimalTie /\ [][NextOptimalTie]_vars

(***************************************************************************)
(* eco_generator.py: h_tree_cts.  cells is the module's dict of the cells, *)
(* a function from names to records [type, site, assigned, connections];   *)
(* a name is <<"buf", k>> or <<"dff", j>>, and the dict lists the buffers  *)
(* before the flip-flops, each in the order of their numbers.  A site is   *)
(* <<x, y>>, NoSite for None.  The net f"clk_L{level}_B{idx}" is           *)
(* <<"clk_L", level, idx>>, 'clk' is <<"clk">> and 'TBD' is <<"TBD">>.     *)
(* Distances are kept as their squares.  l0_buffers, an ordered dict, is a *)
(* sequence of records [buf, dffs].                                        *)
(***************************************************************************)
\* line 82
MAX_FANOUT == 16

NoSite == <<>>
NoCell == <<"none", 0>>
HtBuf(k) == <<"buf", k>>
HtDff(j) == <<"dff", j>>
ClkNet(lvl, idx) == <<"clk_L", lvl, idx>>
NetClk == <<"clk">>
NetTbd == <<"TBD">>
TypeClkbuf4 == "sky130_fd_sc_hd__clkbuf_4"
TypeDfbbp == "sky130_fd_sc_hd__dfbbp_1"

\* line 16-17, squared
distance2(site1, site2) ==
    (site1[1] - site2[1]) * (site1[1] - site2[1])
    + (site1[2] - site2[2]) * (site1[2] - site2[2])

\* line 23-26: the mean of the sites of the cells that have one, as
\* <<sum of x, sum of y, count>>; None (NoSite) when no cell has a site
RECURSIVE site_sum(_, _, _)
site_sum(cell_list, cs, k) ==
    IF cell_list = <<>> THEN 0
    ELSE (IF cs[Head(cell_list)].site # NoSite THEN cs[Head(cell_list)].site[k] ELSE 0)
         + site_sum(Tail(cell_list), cs, k)

center(cell_list, cs) ==
    LET sited == SelectSeq(cell_list, LAMBDA c : cs[c].site # NoSite)
    IN  IF sited = <<>> THEN NoSite
        ELSE <<site_sum(sited, cs, 1), site_sum(sited, cs, 2), Len(sited)>>

\* the square of distance(site, target), times the square of the count of
\* the mean that target is
distance2_to_mean(site, target) ==
    (target[3] * site[1] - target[1]) * (target[3] * site[1] - target[1])
    + (target[3] * site[2] - target[2]) * (target[3] * site[2] - target[2])

\* line 19-21: min() over the candidates that have a site; the first of
\* the nearest ones, None (NoCell) when there is none
find_nearest(target, cands, cs) ==
    LET sited == SelectSeq(cands, LAMBDA c : cs[c].site # NoSite)
        d(i) == distance2_to_mean(cs[sited[i]].site, target)
    IN  IF sited = <<>> THEN NoCell
        ELSE sited[CHOOSE i \in DOMAIN sited :
                      /\ \A j \in DOMAIN sited : d(i) <= d(j)
                      /\ \A j \in 1 .. (i - 1) : d(j) > d(i)]

\* line 113: the sort key, (y, x) of the site, (0, 0) without a site
sort_key(b, cs) == IF cs[b].site # NoSite THEN <<cs[b].site[2], cs[b].site[1]>> ELSE <<0, 0>>
key_less(p, q) == p[1] < q[1] \/ (p[1] = q[1] /\ p[2] < q[2])

\* line 113: list.sort is stable: a buffer goes behind those of the same key
RECURSIVE insert_by_site(_, _, _)
insert_by_site(b, sorted, cs) ==
    IF sorted = <<>> THEN <<b>>
    ELSE IF key_less(sort_key(b, cs), sort_key(Head(sorted), cs)) THEN <<b>> \o sorted
    ELSE <<Head(sorted)>> \o insert_by_site(b, Tail(sorted), cs)

RECURSIVE sort_by_site(_, _)
sort_by_site(bufs, cs) ==
    IF bufs = <<>> THEN <<>>
    ELSE insert_by_site(bufs[Len(bufs)], sort_by_site(SubSeq(bufs, 1, Len(bufs) - 1), cs), cs)

\* line 128-136: the first of the buffers of remaining that have a site and
\* are nearest to the flip-flop (`dist < min_dist`), None when there is none
best_buf(dff_site, remaining, cs) ==
    LET sited == SelectSeq(remaining, LAMBDA b : cs[b].site # NoSite)
        d(i) == distance2(dff_site, cs[sited[i]].site)
    IN  IF sited = <<>> THEN NoCell
        ELSE sited[CHOOSE i \in DOMAIN sited :
                      /\ \A j \in DOMAIN sited : d(i) <= d(j)
                      /\ \A j \in 1 .. (i - 1) : d(j) > d(i)]

\* the keys of l0_buffers, and the flip-flops of a key
l0_keys(l0) == [i \in DOMAIN l0 |-> l0[i].buf]
l0_dffs(l0, buf) == l0[CHOOSE i \in DOMAIN l0 : l0[i].buf = buf].dffs

\* line 139-141: l0_buffers[best_buf].append(dff), the key made when new
l0_append(l0, buf, dff) ==
    IF buf \in Range(l0_keys(l0))
    THEN [i \in DOMAIN l0 |->
             IF l0[i].buf = buf THEN [l0[i] EXCEPT !.dffs = Append(@, dff)] ELSE l0[i]]
    ELSE Append(l0, [buf |-> buf, dffs |-> <<dff>>])

\* line 145, mutated: a buffer takes one flip-flop more before it is full
l0_full_one_more(n) == n > MAX_FANOUT

\* line 145: the buffer has reached MAX_FANOUT
l0_full(n) == n >= MAX_FANOUT

seq_remove(s, x) == SelectSeq(s, LAMBDA y : y # x)

\* line 149-151: the buffers still in remaining become leaves without flip-flops
RECURSIVE add_empty_leaves(_, _)
add_empty_leaves(l0, remaining) ==
    IF remaining = <<>> THEN l0
    ELSE add_empty_leaves(
             IF Head(remaining) \in Range(l0_keys(l0)) THEN l0
             ELSE Append(l0, [buf |-> Head(remaining), dffs |-> <<>>]),
             Tail(remaining))

\* line 162-163: the CLK pin of each flip-flop of the list goes to the net
RECURSIVE connect_dffs(_, _, _)
connect_dffs(dff_list, net_name, cs) ==
    IF dff_list = <<>> THEN cs
    ELSE connect_dffs(Tail(dff_list), net_name,
                      [cs EXCEPT ![Head(dff_list)].connections = DictSet(@, "CLK", net_name)])

\* line 155-165: the connections of the level-0 buffers, from index k on
RECURSIVE connect_l0(_, _, _)
connect_l0(k, l0, cs) ==
    IF k > Len(l0) THEN cs
    ELSE LET net_name == ClkNet(0, k - 1)
             buf == l0[k].buf
             with_buf == [cs EXCEPT ![buf].assigned = TRUE,
                                    ![buf].connections = ("A" :> NetTbd @@ "X" :> net_name)]
         IN  connect_l0(k + 1, l0, connect_dffs(l0[k].dffs, net_name, with_buf))

CeilDiv(a, b) == (a + b - 1) \div b

\* line 218-220: the A pin of each child goes to the parent's net
RECURSIVE connect_children(_, _, _)
connect_children(child_bufs, parent_net, cs) ==
    IF child_bufs = <<>> THEN cs
    ELSE connect_children(Tail(child_bufs), parent_net,
                          [cs EXCEPT ![Head(child_bufs)].connections = DictSet(@, "A", parent_net)])

\* line 193-224: the parents of one level, from parent_idx on; st is
\* [cells, remaining, next_level_bufs, clock_buffers]
RECURSIVE build_level(_, _, _, _, _, _)
build_level(parent_idx, num_parents, children_per_parent, lvl, cur, st) ==
    IF parent_idx >= num_parents THEN st
    ELSE LET start == parent_idx * children_per_parent
             end == Min2(start + children_per_parent, Len(cur))
             slice == SubSeq(cur, start + 1, end)
         IN  IF slice = <<>>
             THEN build_level(parent_idx + 1, num_parents, children_per_parent, lvl, cur, st)
             ELSE LET child_center == center(slice, st.cells)
                      parent_buf ==
                          IF st.remaining # <<>>
                          THEN (IF child_center # NoSite
                                THEN find_nearest(child_center, st.remaining, st.cells)
                                ELSE st.remaining[1])
                          ELSE slice[1]
                      child_bufs == IF st.remaining # <<>> THEN slice ELSE Tail(slice)
                      parent_net == ClkNet(lvl, parent_idx)
                      with_parent ==
                          [st.cells EXCEPT ![parent_buf].assigned = TRUE,
                                           ![parent_buf].connections =
                                               ("A" :> NetTbd @@ "X" :> parent_net)]
                  IN  build_level(parent_idx + 1, num_parents, children_per_parent, lvl, cur,
                          [cells |-> connect_children(child_bufs, parent_net, with_parent),
                           remaining |-> seq_remove(st.remaining, parent_buf),
                           next_level_bufs |-> Append(st.next_level_bufs, parent_buf),
                           clock_buffers |->
                               IF parent_buf \in Range(st.clock_buffers) THEN st.clock_buffers
                               ELSE Append(st.clock_buffers, parent_buf)])

\* line 95-97: no flip-flop: return nets, []
HtNoDffs ==
    /\ ht_pc = "start"
    /\ ht_dffs = <<>>
    /\ ht_pc' = "done"
    /\ UNCHANGED <<ht_names, ht_cells, ht_dffs, ht_clk_net, available_buffers, remaining_buffers,
                   l0_buffers, ht_i, clock_buffers, current_level_bufs, level>>
    /\ UNCHANGED <<gridVars, nfVars, netlistVars, placerVars, hpVars, saVars, ctsVars,
                   tieVars, otVars>>

\* line 85-89: the buffers of the fabric that are not assigned, in the
\* order of the dict
unassigned_buffers(names, cs) ==
    SelectSeq(names, LAMBDA n : cs[n].type = TypeClkbuf4 /\ ~cs[n].assigned)

\* line 99-103: no available buffer: every CLK pin goes to 'clk'
HtDirect ==
    /\ ht_pc = "start"
    /\ ht_dffs # <<>>
    /\ unassigned_buffers(ht_names, ht_cells) = <<>>
    /\ ht_cells' = connect_dffs(ht_dffs, NetClk, ht_cells)
    /\ ht_pc' = "done"
    /\ UNCHANGED <<ht_names, ht_dffs, ht_clk_net, available_buffers, remaining_buffers,
                   l0_buffers, ht_i, clock_buffers, current_level_bufs, level>>
    /\ UNCHANGED <<gridVars, nfVars, netlistVars, placerVars, hpVars, saVars, ctsVars,
                   tieVars, otVars>>

\* line 85-89, 109-113: the available buffers, sorted by site
HtBegin ==
    /\ ht_pc = "start"
    /\ ht_dffs # <<>>
    /\ unassigned_buffers(ht_names, ht_cells) # <<>>
    /\ available_buffers' = unassigned_buffers(ht_names, ht_cells)
    /\ remaining_buffers' = sort_by_site(available_buffers', ht_cells)
    /\ ht_i' = 1
    /\ ht_pc' = "level0"
    /\ UNCHANGED <<ht_names, ht_cells, ht_dffs, ht_clk_net, l0_buffers, clock_buffers,
                   current_level_bufs, level>>
    /\ UNCHANGED <<gridVars, nfVars, netlistVars, placerVars, hpVars, saVars, ctsVars,
                   tieVars, otVars>>

\* line 122-146: one flip-flop of the loop over dffs
HtAssignDff ==
    /\ ht_pc = "level0"
    /\ ht_i <= Len(ht_dffs)
    /\ LET dff == ht_dffs[ht_i]
           dff_site == ht_cells[dff].site
           best == IF dff_site = NoSite THEN NoCell
                   ELSE best_buf(dff_site, remaining_buffers, ht_cells)
       IN  IF best = NoCell
           THEN UNCHANGED <<l0_buffers, remaining_buffers>>
           ELSE /\ l0_buffers' = l0_append(l0_buffers, best, dff)
                /\ remaining_buffers' =
                       IF l0_full(Len(l0_dffs(l0_buffers', best)))
                       THEN seq_remove(remaining_buffers, best)
                       ELSE remaining_buffers
    /\ ht_i' = ht_i + 1
    /\ UNCHANGED <<ht_names, ht_pc, ht_cells, ht_dffs, ht_clk_net, available_buffers, clock_buffers,
                   current_level_bufs, level>>
    /\ UNCHANGED <<gridVars, nfVars, netlistVars, placerVars, hpVars, saVars, ctsVars,
                   tieVars, otVars>>

\* line 149-175: the empty leaves, the connections of level 0, and the
\* buffers that are left for the upper levels
HtConnectLevel0 ==
    /\ ht_pc = "level0"
    /\ ht_i > Len(ht_dffs)
    /\ l0_buffers' = add_empty_leaves(l0_buffers, remaining_buffers)
    /\ ht_cells' = connect_l0(1, l0_buffers', ht_cells)
    /\ clock_buffers' = l0_keys(l0_buffers')
    /\ remaining_buffers' =
           SelectSeq(available_buffers, LAMBDA b : b \notin Range(l0_keys(l0_buffers')))
    /\ current_level_bufs' = l0_keys(l0_buffers')
    /\ level' = 1
    /\ ht_pc' = "levels"
    /\ UNCHANGED <<ht_names, ht_dffs, ht_clk_net, available_buffers, ht_i>>
    /\ UNCHANGED <<gridVars, nfVars, netlistVars, placerVars, hpVars, saVars, ctsVars,
                   tieVars, otVars>>

\* line 179-183
num_parents_of(n, remaining) ==
    IF remaining # <<>> THEN Min2(CeilDiv(n, MAX_FANOUT), Len(remaining))
    ELSE CeilDiv(n, MAX_FANOUT)

\* line 177-230: one level of parents
HtLevel ==
    /\ ht_pc = "levels"
    /\ Len(current_level_bufs) > 1
    /\ LET num_parents == num_parents_of(Len(current_level_bufs), remaining_buffers)
       IN  IF num_parents = 0
           THEN /\ ht_pc' = "root"
                /\ UNCHANGED <<ht_cells, remaining_buffers, clock_buffers,
                               current_level_bufs, level>>
           ELSE LET st == build_level(0, num_parents,
                                      CeilDiv(Len(current_level_bufs), num_parents),
                                      level, current_level_bufs,
                                      [cells |-> ht_cells, remaining |-> remaining_buffers,
                                       next_level_bufs |-> <<>>,
                                       clock_buffers |-> clock_buffers])
                IN  /\ ht_cells' = st.cells
                    /\ remaining_buffers' = st.remaining
                    /\ clock_buffers' = st.clock_buffers
                    /\ current_level_bufs' = st.next_level_bufs
                    /\ level' = level + 1
                    /\ UNCHANGED ht_pc
    /\ UNCHANGED <<ht_names, ht_dffs, ht_clk_net, available_buffers, l0_buffers, ht_i>>
    /\ UNCHANGED <<gridVars, nfVars, netlistVars, placerVars, hpVars, saVars, ctsVars,
                   tieVars, otVars>>

\* line 234-248: the buffers of the top level go to 'clk'; the clock
\* buffers are appended to nets['clk']
HtRoot ==
    /\ \/ ht_pc = "root"
       \/ ht_pc = "levels" /\ Len(current_level_bufs) <= 1
    /\ ht_cells' = connect_children(current_level_bufs, NetClk, ht_cells)
    /\ ht_clk_net' = ht_clk_net \o clock_buffers
    /\ ht_pc' = "done"
    /\ UNCHANGED <<ht_names, ht_dffs, available_buffers, remaining_buffers, l0_buffers, ht_i,
                   clock_buffers, current_level_bufs, level>>
    /\ UNCHANGED <<gridVars, nfVars, netlistVars, placerVars, hpVars, saVars, ctsVars,
                   tieVars, otVars>>

(***************************************************************************)
(* SpecHTree: h_tree_cts over fabrics of up to MaxBufs clock buffers, of   *)
(* which the first may be assigned already, and up to MaxDffs flip-flops:  *)
(* all on one site, spread over the grid, or on one site with the first    *)
(* one not placed.  Buffer k is on site <<k \div 6, k % 6>>, so that the   *)
(* order by site is not the order of the dict.                             *)
(***************************************************************************)
MaxBufs == 17
MaxDffs == 17

BufCell(k, assigned) ==
    [type |-> TypeClkbuf4, site |-> <<k \div 6, k % 6>>, assigned |-> assigned,
     connections |-> EmptyDict]
DffCell(site) ==
    [type |-> TypeDfbbp, site |-> site, assigned |-> TRUE,
     connections |-> ("CLK" :> <<"design", 2>> @@ "D" :> <<"design", 3>>)]

DffSite(j, layout) ==
    CASE layout = "one_site" -> <<0, 0>>
      [] layout = "spread" -> <<(2 * j) % 5, j % 3>>
      [] OTHER -> IF j = 1 THEN NoSite ELSE <<0, 0>>

HtNames(nb, nd) == [i \in 1 .. (nb + nd) |-> IF i <= nb THEN HtBuf(i) ELSE HtDff(i - nb)]

HtCells(nb, nd, layout, used) ==
    [n \in Range(HtNames(nb, nd)) |->
        IF n[1] = "buf" THEN BufCell(n[2], used /\ n[2] = 1)
        ELSE DffCell(DffSite(n[2], layout))]

\* line 452
get_dffs(names, cs) == SelectSeq(names, LAMBDA n : cs[n].type = TypeDfbbp /\ cs[n].assigned)

InitHTree ==
    /\ \E nb \in 0 .. MaxBufs, nd \in 0 .. MaxDffs,
          layout \in {"one_site", "spread", "unplaced"}, used \in BOOLEAN :
          /\ ht_names = HtNames(nb, nd)
          /\ ht_cells = HtCells(nb, nd, layout, used)
    /\ ht_dffs = get_dffs(ht_names, ht_cells)
    /\ ht_clk_net = <<>>
    /\ ht_pc = "start"
    /\ available_buffers = <<>> /\ remaining_buffers = <<>> /\ l0_buffers = <<>>
    /\ ht_i = 0 /\ clock_buffers = <<>> /\ current_level_bufs = <<>> /\ level = 0
    /\ GridIdle /\ NearestIdle /\ PlacerIdle /\ HpwlIdle /\ SaIdle /\ CtsIdle /\ TieIdle
    /\ OtIdle

NextHTree == HtNoDffs \/ HtDirect \/ HtBegin \/ HtAssignDff \/ HtConnectLevel0 \/ HtLevel \/ HtRoot

SpecHTree == InitHTree /\ [][NextHTree]_vars


(***************************************************************************)
(* Claims about find_nearest_free (checked under SpecNearest).             *)
(***************************************************************************)
FreeSites == AllSites(sites_x, sites_y) \ occupied

\* C3: whenever a free in-grid site exists, find_nearest_free returns a free
\* in-grid site of minimum Euclidean distance (microns) from start: no free
\* in-grid site is strictly nearer than the one returned.
C3_ReturnsTrueNearest ==
    (nf_pc = "done" /\ FreeSites # {}) =>
        /\ ~nf_result.raised
        /\ nf_result.site \in FreeSites
        /\ \A q \in FreeSites :
              dist2(nf_result.site, nf_start, site_w, site_h)
                  <= dist2(q, nf_start, site_w, site_h)

\* C4: a free start is returned itself; with exactly one free in-grid site
\* that site is returned for every in-grid start.
C4_FreeStartAndSingleFree ==
    nf_pc = "done" =>
        /\ nf_start \notin occupied => nf_result = Returned(nf_start)
        /\ \A f \in FreeSites : FreeSites = {f} => nf_result = Returned(f)

\* C4 witness: the 10 x 10 grid, everything occupied except (5,5), start
\* (0,0), and the call has returned (5,5).
C4_Witness ==
    /\ nf_pc = "done"
    /\ sites_x = 10 /\ sites_y = 10
    /\ occupied = AllSites(10, 10) \ {<<5, 5>>}
    /\ nf_start = <<0, 0>>
    /\ nf_result = Returned(<<5, 5>>)

PlacedSites == {placements[c].site : c \in DOMAIN placements}
PinSites == {pin_site_map[p] : p \in DOMAIN pin_site_map}

C2_OccupancyInjective ==
    /\ \A p1 \in DOMAIN pin_site_map, p2 \in DOMAIN pin_site_map :
          p1 # p2 => pin_site_map[p1] # pin_site_map[p2]
    /\ \A c1 \in DOMAIN placements, c2 \in DOMAIN placements :
          c1 # c2 => placements[c1].site # placements[c2].site
    /\ PinSites \cap PlacedSites = {}
    /\ occupied = PinSites \cup PlacedSites
    /\ Cardinality(occupied)
          = Cardinality(DOMAIN pin_site_map) + Cardinality(DOMAIN placements)

\* C2 witness: run_grow is under way with two pins and three cells on sites
C2_Witness ==
    /\ pl_pc = "grow"
    /\ Cardinality(DOMAIN pin_site_map) = 2
    /\ Cardinality(DOMAIN placements) = 3
    /\ Cardinality(occupied) = 5

(***************************************************************************)
(* Claims about run_sa (checked under SpecSA).                             *)
(***************************************************************************)
\* the multiset of the sites a placement holds: site -> number of its cells
SiteBag(pl) ==
    [s \in {pl[c].site : c \in DOMAIN pl} |->
        Cardinality({c \in DOMAIN pl : pl[c].site = s})]

\* C6: after any sequence of move attempts, accepted or rejected, the
\* current placement and the best placement hold the same multiset of
\* sites, over the same cells, as the input placement.
C6_SwapsPreserveSiteMultiset ==
    /\ DOMAIN current = DOMAIN sa_placements
    /\ DOMAIN best_place = DOMAIN sa_placements
    /\ SiteBag(current) = SiteBag(sa_placements)
    /\ SiteBag(best_place) = SiteBag(sa_placements)

\* C6 witness: run_sa has returned after moves that changed the current
\* placement and the best placement, to different placements
C6_Witness ==
    /\ sa_pc = "done"
    /\ current # sa_placements
    /\ best_place # sa_placements
    /\ current # best_place

\* C7: best_cost never exceeds total_hpwl of the input placement, and no
\* step of the run increases best_cost.
C7_BestCostBoundedAndNonIncreasing ==
    /\ [](best_cost <= total_hpwl(sa_nets, sa_placements))
    /\ [][best_cost' <= best_cost]_vars

\* C7 witness: run_sa has returned a cost below that of its input
C7_Witness ==
    /\ sa_pc = "done"
    /\ best_cost < total_hpwl(sa_nets, sa_placements)

\* C8: the best pair is consistent and is the best state seen:
\* total_hpwl(nets, best_place) = best_cost, and best_cost is the least cost
\* among the input and the accepted states, whatever the current state.
C8_BestIsBestSeen ==
    /\ total_hpwl(sa_nets, best_place) = best_cost
    /\ best_cost = min_accepted
    /\ current_cost >= best_cost

\* C8 witness: run_sa has returned while its current state costs more than
\* the best one
C8_Witness ==
    /\ sa_pc = "done"
    /\ current_cost > best_cost
    /\ best_cost < total_hpwl(sa_nets, sa_placements)

(***************************************************************************)
(* Claims about total_hpwl (checked under SpecHpwl).                       *)
(***************************************************************************)
\* the names of a member list that are str and placed
PlacedMembers(members, pl) ==
    {m.v : m \in {x \in Range(members) : x.isstr /\ x.v \in DOMAIN pl}}

SetMax(S) == CHOOSE x \in S : \A y \in S : y <= x
SetMin(S) == CHOOSE x \in S : \A y \in S : x <= y

\* the half perimeter of the box around the placed members of a net
HalfPerimeter(members, pl) ==
    LET P == PlacedMembers(members, pl)
        X == {pl[c].site[1] : c \in P}
        Y == {pl[c].site[2] : c \in P}
    IN  IF P = {} THEN 0 ELSE (SetMax(X) - SetMin(X)) + (SetMax(Y) - SetMin(Y))

\* the weight of a net: its valid weight if it has one, else 1
WeightOf(n, nw) == IF n \in DOMAIN nw /\ nw[n].num THEN nw[n].val ELSE 1

\* with two nets n1, n2: weight x half perimeter, summed
WeightedHalfPerimeters(nts, pl, nw) ==
    WeightOf("n1", nw) * HalfPerimeter(nts.n1, pl)
    + WeightOf("n2", nw) * HalfPerimeter(nts.n2, pl)

ScenarioNets == [n1 |-> <<Str("a"), Str("b")>>, n2 |-> <<Str("b"), Str("c")>>]
ScenarioPlacements ==
    [c \in HpwlNames |-> Site(IF c = "a" THEN <<1, 1>>
                              ELSE IF c = "b" THEN <<2, 2>> ELSE <<3, 3>>)]

\* C9: total_hpwl is the sum over the nets of weight x ((max x - min x) +
\* (max y - min y)) over the members that are str and placed, the weight
\* being 1 without a (valid) weight; the scenario a,b,c at (1,1),(2,2),(3,3)
\* with n1=[a,b], n2=[b,c] gives 4; nets with at most one placed member
\* contribute 0.
C9_WeightedHalfPerimeterSum ==
    /\ hp_pc = "done" =>
          hp_result = WeightedHalfPerimeters(hp_nets, hp_placements, EmptyDict)
    /\ hp_pc = "done_weighted" =>
          hp_result = WeightedHalfPerimeters(hp_nets, hp_placements, hp_weights)
    /\ (hp_pc = "done" /\ hp_nets = ScenarioNets
          /\ hp_placements = ScenarioPlacements) => hp_result = 4
    /\ (hp_pc \in {"done", "done_weighted"}
          /\ \A n \in DOMAIN hp_nets :
                Cardinality(PlacedMembers(hp_nets[n], hp_placements)) <= 1)
          => hp_result = 0

\* C9 witness: the scenario has been costed, at 4
C9_Witness ==
    /\ hp_pc = "done"
    /\ hp_nets = ScenarioNets
    /\ hp_placements = ScenarioPlacements
    /\ hp_result = 4

\* reflections of a placement in x, in y, and a renaming of the names
ReflectX(pl, X) == [c \in DOMAIN pl |-> Site(<<X - pl[c].site[1], pl[c].site[2]>>)]
ReflectY(pl, Y) == [c \in DOMAIN pl |-> Site(<<pl[c].site[1], Y - pl[c].site[2]>>)]

Bijections(S) == {f \in [S -> S] : \A x \in S, y \in S : f[x] = f[y] => x = y}
InverseOf(f) == [y \in DOMAIN f |-> CHOOSE x \in DOMAIN f : f[x] = y]
RenameMembers(members, f) ==
    [i \in DOMAIN members |->
        IF members[i].isstr THEN Str(f[members[i].v]) ELSE members[i]]
RenameNets(nts, f) == [n \in DOMAIN nts |-> RenameMembers(nts[n], f)]
RenamePlacements(pl, f) ==
    LET g == InverseOf(f)
    IN  [c \in {f[x] : x \in DOMAIN pl} |-> pl[g[c]]]

\* C10: the cost is the same after reflecting every placed site in x
\* (sx -> X - sx) or in y (sy -> Y - sy), and after renaming the cells by
\* a bijection in the nets and in the placements alike.
C10_ReflectionAndRenaming ==
    /\ hp_pc = "done" =>
          /\ \A X \in {3, 4} :
                /\ total_hpwl(hp_nets, ReflectX(hp_placements, X)) = hp_result
                /\ total_hpwl(hp_nets, ReflectY(hp_placements, X)) = hp_result
          /\ \A f \in Bijections(HpwlNames) :
                total_hpwl(RenameNets(hp_nets, f),
                           RenamePlacements(hp_placements, f)) = hp_result
    /\ hp_pc = "done_weighted" =>
          /\ \A X \in {3, 4} :
                /\ total_hpwl_weighted(hp_nets, ReflectX(hp_placements, X),
                                       hp_weights) = hp_result
                /\ total_hpwl_weighted(hp_nets, ReflectY(hp_placements, X),
                                       hp_weights) = hp_result
          /\ \A f \in Bijections(HpwlNames) :
                total_hpwl_weighted(RenameNets(hp_nets, f),
                                    RenamePlacements(hp_placements, f),
                                    hp_weights) = hp_result

\* C10 witness: a costed input of positive cost with two cells of a net on
\* different columns and rows and a third name that is not placed
C10_Witness ==
    /\ hp_pc = "done"
    /\ hp_result > 0
    /\ DOMAIN hp_placements = {"a", "c"}
    /\ hp_placements["a"].site = <<3, 1>>
    /\ hp_placements["c"].site = <<1, 1>>
    /\ hp_nets.n1 = <<Str("c"), Str("b")>>
    /\ hp_nets.n2 = <<Str("a"), Str("c")>>

(***************************************************************************)
(* Claims about cluster_sinks and build_cts (checked under SpecCluster and *)
(* SpecCts).                                                               *)
(***************************************************************************)
\* every node of a cluster tree, the root included
RECURSIVE TreeNodes(_)
TreeNodes(tree) ==
    {tree} \cup UNION {TreeNodes(tree.children[i]) : i \in DOMAIN tree.children}

LeafNodes(tree) == {n \in TreeNodes(tree) : n.children = <<>>}

\* how many leaves of the tree have the sink among their members
LeafCount(tree, s) == Cardinality({n \in LeafNodes(tree) : s \in Range(n.members)})

NoRepeats(q) == \A i, j \in DOMAIN q : q[i] = q[j] => i = j

Clustered == cts_pc \in {"build", "done"}

\* C11: the leaves of the tree cluster_sinks returns partition the sinks:
\* every sink is a member of exactly one leaf, once, and a leaf has nothing
\* but sinks; a leaf has at most max_leaf members; an internal node has
\* exactly two children, both non-empty (so both smaller than the node, which
\* is why the recursion ends), whose members together are the node's members.
C11_LeavesPartitionSinks ==
    Clustered =>
        /\ cluster_tree.members = sinks
        /\ \A i \in DOMAIN sinks : LeafCount(cluster_tree, sinks[i]) = 1
        /\ \A n \in LeafNodes(cluster_tree) :
              /\ Len(n.members) <= max_leaf
              /\ NoRepeats(n.members)
              /\ Range(n.members) \subseteq Range(sinks)
        /\ \A n \in TreeNodes(cluster_tree) \ LeafNodes(cluster_tree) :
              /\ Len(n.children) = 2
              /\ n.children[1].members # <<>>
              /\ n.children[2].members # <<>>
              /\ Len(n.children[1].members) + Len(n.children[2].members) = Len(n.members)
              /\ Range(n.children[1].members) \cup Range(n.children[2].members)
                     = Range(n.members)

\* C11 witness: four sinks, one to a leaf, under a root and two inner nodes
C11_Witness ==
    /\ Clustered
    /\ Len(sinks) = 4 /\ max_leaf = 1
    /\ Cardinality(LeafNodes(cluster_tree)) = 4
    /\ Cardinality(TreeNodes(cluster_tree)) = 7

Span(q) == seq_max(q) - seq_min(q)

\* the axis of the larger coordinate span of a member list, x (1) on ties
WiderAxis(members) ==
    IF Span([i \in DOMAIN members |-> members[i][1]])
           >= Span([i \in DOMAIN members |-> members[i][2]])
    THEN 1 ELSE 2

NonDecreasing(q, axis) == \A i, j \in DOMAIN q : i < j => q[i][axis] <= q[j][axis]

TheCorners == {<<0, 0>>, <<10, 0>>, <<0, 10>>, <<10, 10>>}

SpotOf(s) == <<s[1], s[2]>>

\* the midpoint of a two-member list, as a pair of fractions
Midpoint(members) ==
    <<Frac(members[1][1] + members[2][1], 2), Frac(members[1][2] + members[2][2], 2)>>

\* C12: a cluster of more than max_leaf members is split on the axis of the
\* larger span (x on ties): the first child's members followed by the second
\* child's are the node's members in non-decreasing order on that axis, the
\* first child has floor(n/2) of them and the second ceil(n/2); and for the
\* four corner sinks with max_leaf = 2 the root has two 2-member leaves whose
\* centres are the midpoints of their members.
C12_SplitsAtMedianOfWiderAxis ==
    Clustered =>
        /\ \A n \in TreeNodes(cluster_tree) :
              Len(n.members) > max_leaf =>
                  LET both == n.children[1].members \o n.children[2].members
                  IN  /\ Len(n.children) = 2
                      /\ NonDecreasing(both, WiderAxis(n.members))
                      /\ Range(both) = Range(n.members)
                      /\ Len(n.children[1].members) = Len(n.members) \div 2
                      /\ Len(n.children[2].members) = Len(n.members) - Len(n.members) \div 2
        /\ \A n \in TreeNodes(cluster_tree) : Len(n.members) <= max_leaf => n.children = <<>>
        /\ ({SpotOf(sinks[i]) : i \in DOMAIN sinks} = TheCorners /\ Len(sinks) = 4 /\ max_leaf = 2) =>
              /\ Len(cluster_tree.children) = 2
              /\ \A k \in 1 .. 2 :
                    /\ Len(cluster_tree.children[k].members) = 2
                    /\ cluster_tree.children[k].children = <<>>
                    /\ cluster_tree.children[k].center = Midpoint(cluster_tree.children[k].members)

\* C12 witness: the scenario: the corners, split on x into the two columns
C12_Witness ==
    /\ Clustered
    /\ sinks = << <<0, 0, "d1">>, <<10, 0, "d2">>, <<0, 10, "d3">>, <<10, 10, "d4">> >>
    /\ max_leaf = 2
    /\ cluster_tree.children[1].members = << <<0, 0, "d1">>, <<0, 10, "d3">> >>
    /\ cluster_tree.children[1].center = << <<0, 1>>, <<5, 1>> >>
    /\ cluster_tree.children[2].center = << <<10, 1>>, <<5, 1>> >>

\* the arithmetic mean of the coordinates of a non-empty member list
Centroid(members) ==
    <<Frac(seq_sum([i \in DOMAIN members |-> members[i][1]]), Len(members)),
      Frac(seq_sum([i \in DOMAIN members |-> members[i][2]]), Len(members))>>

\* the cluster node whose call of build_cts is the next to return
NextClusterNode == subtree(cluster_tree, Head(cts_todo))

\* the nodes of the pool that a step has newly claimed
NewlyClaimed == {i \in DOMAIN available_bufs : /\ available_bufs[i].name \in claimed'
                                               /\ available_bufs[i].name \notin claimed}

\* C13: every node of the tree, internal nodes included, has for centre the
\* centroid of its own members; and a step of build_cts that claims a node
\* claims one that is, of the unclaimed nodes, nearest to that centroid.
C13_CentreIsCentroidOfMembers ==
    /\ [](Clustered =>
            \A n \in TreeNodes(cluster_tree) :
                n.members # <<>> => n.center = Centroid(n.members))
    /\ [][(cts_pc = "build" /\ claimed' # claimed) =>
            \A i \in NewlyClaimed : \A j \in DOMAIN available_bufs :
                available_bufs[j].name \notin claimed =>
                    dist2_to_center(available_bufs[i], Centroid(NextClusterNode.members))
                        <= dist2_to_center(available_bufs[j], Centroid(NextClusterNode.members))]_vars

(***************************************************************************)
(* Claims about the tie-off of modify_mapped_json (checked under SpecTie). *)
(***************************************************************************)
TileNets == {"tie_low_T0", "tie_low_T1", "tie_high_T0", "tie_high_T1"}

\* the net is a tile's tie_low_* or tie_high_* net
OnTieNet(net) == \E i \in DOMAIN net : net[i].isstr /\ net[i].v \in TileNets

\* the pins <<instance, pin>> of the module, the CONB instances' own outputs
\* aside, that are connected to the net of that name
PinsOn(name) ==
    UNION {{<<c.name, c.connections[k].pin>> :
               k \in {m \in DOMAIN c.connections : c.connections[m].net = <<Str(name)>>}} :
           c \in {module_cells[j] : j \in {i \in DOMAIN module_cells :
                                               module_cells[i].type # TypeConb}}}

\* C14: at every point of the tie-off each tile's lo_fanout and hi_fanout are
\* at most the tile's max_fanout (for max_fanout 0 as well), no more pins
\* than that are on either of the tile's tie nets, and no step lowers a
\* counter.
C14_FanoutWithinMax ==
    /\ [](\A t \in DOMAIN conb_assignment :
            /\ conb_assignment[t].max_fanout = max_fanout
            /\ conb_assignment[t].lo_fanout \in 0 .. conb_assignment[t].max_fanout
            /\ conb_assignment[t].hi_fanout \in 0 .. conb_assignment[t].max_fanout
            /\ t \in DOMAIN tie_nets =>
                  /\ Cardinality(PinsOn(tie_nets[t].lo)) = conb_assignment[t].lo_fanout
                  /\ Cardinality(PinsOn(tie_nets[t].hi)) = conb_assignment[t].hi_fanout)
    /\ [][\A t \in DOMAIN conb_assignment :
            /\ t \in DOMAIN conb_assignment'
            /\ conb_assignment'[t].lo_fanout >= conb_assignment[t].lo_fanout
            /\ conb_assignment'[t].hi_fanout >= conb_assignment[t].hi_fanout]_vars

\* C14 witness: a tile with a counter at max_fanout = 2, two pins on that
\* tie net and a pin that was refused
C14_Witness ==
    /\ tie_pc = "done"
    /\ max_fanout = 2
    /\ \E t \in DOMAIN conb_assignment :
          /\ t \in DOMAIN tie_nets
          /\ conb_assignment[t].lo_fanout = 2
          /\ Cardinality(PinsOn(tie_nets[t].lo)) = 2
    /\ fanout_warnings # <<>>

\* ---- the cell the pin loop is at
CurrentInst == unused_cells[tie_i]
ConnsBefore(inst) == cell_of(mapped_before, inst).connections
ConnsNow(inst) == cell_of(module_cells, inst).connections

\* the tie the leakage table gives a pin: the lower leakage, LOW by default
PolarityOf(type, pin) ==
    IF type \in DOMAIN leakage_db /\ pin \in DOMAIN leakage_db[type]
       /\ "tie_high" \in DOMAIN leakage_db[type][pin]
       /\ ("tie_low" \in DOMAIN leakage_db[type][pin]
              => leakage_db[type][pin]["tie_high"] < leakage_db[type][pin]["tie_low"])
    THEN "tie_high" ELSE "tie_low"

\* the input pins of a cell that are to be tied, with their polarity
TiePolarities(inst) ==
    {PolarityOf(cell_of(mapped_before, inst).type, ConnsBefore(inst)[k].pin) :
        k \in {m \in DOMAIN ConnsBefore(inst) :
                  /\ ConnsBefore(inst)[m].pin \notin {"Y", "X", "Q"}
                  /\ \A i \in DOMAIN ConnsBefore(inst)[m].net :
                        ~ConnsBefore(inst)[m].net[i].isstr}}

\* the pins of the cell tied so far to the given net
TiedSoFar(inst, name) ==
    {k \in DOMAIN ConnsNow(inst) :
        ConnsNow(inst)[k].net = <<Str(name)>> /\ ConnsBefore(inst)[k].net # <<Str(name)>>}

\* the tile's counter of a polarity as it was when the loop came to the cell
CounterAtCellBegin(tie) ==
    IF tie = "tie_low"
    THEN conb_assignment[tie_tile].lo_fanout
            - Cardinality(TiedSoFar(CurrentInst, tie_nets[tie_tile].lo))
    ELSE conb_assignment[tie_tile].hi_fanout
            - Cardinality(TiedSoFar(CurrentInst, tie_nets[tie_tile].hi))

\* C15: a cell that resolves to a polarity whose counter had reached
\* max_fanout when the loop came to the cell is skipped as a whole: no step
\* on its pins changes a connection or a counter, and a warning is recorded
\* for it; and with one CONB tile, max_fanout = 1 and two unused cells that
\* both resolve to LOW, the first is tied and the second stays as it was,
\* with a warning.
C15_FullTileSkipsWholeCell ==
    /\ [][(tie_pc = "pin" /\ \E tie \in TiePolarities(CurrentInst) :
                                 CounterAtCellBegin(tie) >= max_fanout)
            => /\ module_cells' = module_cells
               /\ conb_assignment' = conb_assignment
               /\ (tie_pc' = "cell" => fanout_warnings' # <<>>)]_vars
    /\ []((/\ tie_pc = "done"
           /\ Len(conb_tiles(tile_to_nodes)) = 1 /\ max_fanout = 1
           /\ Len(unused_cells) = 2
           /\ TiePolarities(unused_cells[1]) = {"tie_low"}
           /\ TiePolarities(unused_cells[2]) = {"tie_low"})
          => /\ \E k \in DOMAIN ConnsNow(unused_cells[1]) :
                   OnTieNet(ConnsNow(unused_cells[1])[k].net)
             /\ ConnsNow(unused_cells[2]) = ConnsBefore(unused_cells[2])
             /\ fanout_warnings # <<>>)

\* the clock pin of a flip-flop that modify_mapped_json rewires
IsClockPin(inst, pin) == inst \in Range(dff_instances) /\ pin \in {"CLK", "clk", "GCLK"}

\* C16: the tie-off rewires unused cells only: no pin of a cell of the
\* mapped netlist and no pin of a resource claimed by CTS is put on a
\* tie_low_* / tie_high_* net, and when modify_mapped_json is done every
\* cell of the mapped netlist has the connections it had, the flip-flops'
\* clock pins aside.
C16_DesignCellsKeepConnections ==
    /\ \A i \in DOMAIN module_cells :
          (module_cells[i].name \in cell_names(mapped_before) \cup claimed) =>
              \A k \in DOMAIN module_cells[i].connections :
                  ~OnTieNet(module_cells[i].connections[k].net)
    /\ tie_pc = "done" =>
          \A i \in DOMAIN mapped_before :
              LET inst == mapped_before[i].name
              IN  /\ inst \in cell_names(module_cells)
                  /\ inst \notin {"cts_buf_0", "cts_buf_1"} =>
                        \A k \in DOMAIN ConnsBefore(inst) :
                            \/ IsClockPin(inst, ConnsBefore(inst)[k].pin)
                            \/ ConnsNow(inst)[k] = ConnsBefore(inst)[k]

(***************************************************************************)
(* Claims about build_cts (checked under SpecCts).                         *)
(***************************************************************************)
\* the names of the nodes of a list of assignments, in order
NodeNames(assigns) == [i \in DOMAIN assigns |-> assigns[i].node.name]

\* the candidate list of claim_nearest_node as build_cts passes it
Candidates == available_bufs \o available_invs

\* how often a name is in the candidate list
Occurrences(name) == Cardinality({i \in DOMAIN Candidates : Candidates[i].name = name})

\* the calls of build_cts on a node with children
InternalCount ==
    Cardinality({p \in Range(return_order(cluster_tree, <<>>)) :
                    subtree(cluster_tree, p).children # <<>>})

\* C17: across one build_cts run no fabric node is claimed twice: the node
\* names of the assignments every call returns are pairwise distinct and
\* are claimed names, the claimed set only grows, and the list build_cts
\* returns has as many assignments as the claimed set has names, though
\* every inverter is twice in the candidate list.
C17_NoNodeClaimedTwice ==
    /\ [](\A path \in DOMAIN cts_ret :
             /\ NoRepeats(NodeNames(cts_ret[path]))
             /\ Range(NodeNames(cts_ret[path])) \subseteq claimed)
    /\ [](cts_pc = "done" =>
             /\ NoRepeats(NodeNames(cts_assignments))
             /\ Len(cts_assignments) = Cardinality(claimed)
             /\ Range(NodeNames(cts_assignments)) = claimed)
    /\ [][claimed \subseteq claimed']_vars

\* C17 witness: a run that claimed an inverter, which is twice in the
\* candidate list, and then found every candidate claimed
C17_Witness ==
    /\ cts_pc = "done"
    /\ Len(cts_assignments) >= 2
    /\ \E i \in DOMAIN cts_assignments :
          /\ cts_assignments[i].node.cell_type = "INV"
          /\ Occurrences(cts_assignments[i].node.name) = 2
    /\ InternalCount > Len(cts_assignments)

\* every candidate of claim_nearest_node is claimed
NoCandidate == \A i \in DOMAIN Candidates : Candidates[i].name \in claimed

\* the call of build_cts that returns next is on a node with children
AtInternalNode ==
    /\ cts_pc = "build" /\ cts_todo # <<>>
    /\ subtree(cluster_tree, Head(cts_todo)).children # <<>>

\* C18: when build_cts finds no unclaimed buffer or inverter for an
\* internal node, the call returns the assignments of the calls on the
\* children as they are, in order, and nothing more; nothing is claimed and
\* the run goes on; and every assignment a call returned is in the list
\* build_cts returns in the end.
C18_DroppedLevelKeepsChildren ==
    /\ [][(AtInternalNode /\ NoCandidate) =>
            /\ cts_ret'[Head(cts_todo)] =
                  cts_ret[Append(Head(cts_todo), 1)] \o cts_ret[Append(Head(cts_todo), 2)]
            /\ claimed' = claimed
            /\ cts_pc' = "build"
            /\ cts_todo' = Tail(cts_todo)]_vars
    /\ [](cts_pc = "done" =>
             \A path \in DOMAIN cts_ret :
                 Range(cts_ret[path]) \subseteq Range(cts_assignments))

\* C18 witness: the root's level was dropped and both children's calls had
\* returned assignments
C18_Witness ==
    /\ cts_pc = "done"
    /\ cluster_tree.children # <<>>
    /\ cts_ret[<<1>>] # <<>> /\ cts_ret[<<2>>] # <<>>
    /\ cts_assignments = cts_ret[<<1>>] \o cts_ret[<<2>>]
    /\ NoCandidate

(***************************************************************************)
(* Claims about run_grow (checked under SpecPlace and SpecPlaceFair).      *)
(***************************************************************************)
\* the grid has a free site for each unplaced cell
EnoughFree == sites_x * sites_y - Cardinality(occupied) >= Cardinality(unplaced)

\* C19: run_grow terminates when the grid has a free site for each
\* unplaced cell: each iteration of the main loop places exactly one
\* unplaced cell on one more site and the loop goes on, the loop is left
\* in the end, and on exit the unplaced set is empty and every cell of
\* logical["cells"] is in placements.
C19_GrowTerminates ==
    /\ [][(pl_pc = "grow" /\ unplaced # {} /\ EnoughFree) =>
            /\ pl_pc' = "grow"
            /\ EnoughFree'
            /\ \E c \in unplaced \ DOMAIN placements :
                  /\ unplaced' = unplaced \ {c}
                  /\ DOMAIN placements' = DOMAIN placements \cup {c}
                  /\ \A d \in DOMAIN placements : placements'[d] = placements[d]
                  /\ placements'[c].site \notin occupied
                  /\ occupied' = occupied \cup {placements'[c].site}]_vars
    /\ [](pl_pc = "done" => unplaced = {} /\ cells \subseteq DOMAIN placements)
    /\ ((pl_pc = "grow" /\ EnoughFree) ~> (pl_pc = "done"))

\* C19 witness: run_grow is left after it placed cells from the buckets and
\* by the fallback
C19_Witness ==
    /\ pl_pc = "done"
    /\ cells \subseteq DOMAIN placements
    /\ \E c \in cells : placements[c].via_grow = "true"
    /\ \E c \in cells : placements[c].via_grow = "fallback"

\* the number of already placed neighbours of a cell
PlacedNeighbourCount(c, placed) == Cardinality({n \in adj(c) : n \in placed})

\* C20: at every selection of run_grow that is not the fallback, the cell
\* that is placed has the most already placed neighbours of all unplaced
\* cells, and of the unplaced cells with as many it has the greatest total
\* degree.
C20_GrowPicksMostConnected ==
    [][\A c \in unplaced \ unplaced' :
          (pl_pc = "grow" /\ placements'[c].via_grow = "true") =>
              \A d \in unplaced :
                  \/ PlacedNeighbourCount(d, DOMAIN placements)
                        < PlacedNeighbourCount(c, DOMAIN placements)
                  \/ /\ PlacedNeighbourCount(d, DOMAIN placements)
                          = PlacedNeighbourCount(c, DOMAIN placements)
                     /\ total_deg(d) <= total_deg(c)]_vars

\* C20 witness: the one cell placed from a bucket so far was taken before
\* a cell with as many placed neighbours and a smaller degree, and before
\* a cell with fewer placed neighbours
C20_Witness ==
    /\ pl_pc = "grow"
    /\ \E c \in DOMAIN placements :
          LET before == DOMAIN placements \ {c}
          IN  /\ placements[c].via_grow = "true"
              /\ \A x \in before : placements[x].via_grow # "true"
              /\ \E d \in unplaced :
                    /\ PlacedNeighbourCount(d, before) = PlacedNeighbourCount(c, before)
                    /\ total_deg(d) < total_deg(c)
              /\ \E e \in unplaced :
                    PlacedNeighbourCount(e, before) < PlacedNeighbourCount(c, before)

\* the site run_grow searches from for the cell it places: the grid centre
\* on the fallback, else the site of the centroid of the placed neighbours
GrowTarget(c, fallback) ==
    IF fallback THEN <<sites_x \div 2, sites_y \div 2>> ELSE centroid_site(c, placements)

\* C21: run_grow places a cell by the fallback (provenance "fallback", the
\* unplaced cell of greatest degree, on the free site nearest to the grid
\* centre (sites_x // 2, sites_y // 2)) exactly when no unplaced cell has a
\* placed neighbour; otherwise the cell goes (provenance True) to the free
\* site nearest to the site of the centroid of its placed neighbours.
C21_FallbackIffNoPlacedNeighbour ==
    [][\A c \in unplaced \ unplaced' :
          LET fallback == placements'[c].via_grow = "fallback"
              site == placements'[c].site
              target == GrowTarget(c, fallback)
          IN  /\ fallback <=> \A d \in unplaced :
                                  PlacedNeighbourCount(d, DOMAIN placements) = 0
              /\ ~fallback => placements'[c].via_grow = "true"
              /\ fallback => \A d \in unplaced : total_deg(d) <= total_deg(c)
              /\ site \in FreeSites
              /\ \A q \in FreeSites :
                    dist2(site, target, site_w, site_h) <= dist2(q, target, site_w, site_h)]_vars

(***************************************************************************)
(* Claims about run_seed (checked under SpecPlace).                        *)
(***************************************************************************)
\* the names of the pins with status FIXED, in the order of the pin list
FixedPinNames ==
    LET fixed == SelectSeq(pins, LAMBDA p : p.status = "FIXED")
    IN  [i \in DOMAIN fixed |-> fixed[i].name]

\* the cells on the nets of a pin's port
ReachableFrom(pname) == Range(port_to_cells(pname))

\* the cells reachable from some fixed pin
SeedCells == UNION {ReachableFrom(FixedPinNames[i]) : i \in DOMAIN FixedPinNames}

\* the first fixed pin, in the order of the pin list, that reaches the cell
FirstPinOf(c) ==
    FixedPinNames[CHOOSE i \in DOMAIN FixedPinNames :
                     /\ c \in ReachableFrom(FixedPinNames[i])
                     /\ \A j \in DOMAIN FixedPinNames :
                           c \in ReachableFrom(FixedPinNames[j]) => i <= j]

\* C22: run_seed places each cell that a fixed pin reaches exactly once,
\* with via_pin the first fixed pin, in the order of the pin list, whose
\* port nets hold the cell; no later step moves or replaces a placed cell;
\* a pin has its own site before any of its cells has one; and when
\* run_seed has returned, the cells it placed are the cells the fixed pins
\* reach.
C22_SeededOnceAtFirstPin ==
    /\ [](\A c \in DOMAIN placements :
             placements[c].via_pin # "" =>
                 /\ c \in SeedCells
                 /\ placements[c].via_pin = FirstPinOf(c)
                 /\ placements[c].via_pin \in DOMAIN pin_site_map
                 /\ placements[c].site # pin_site_map[placements[c].via_pin])
    /\ [](pl_pc \in {"grow", "done"} =>
             \A c \in SeedCells : c \in DOMAIN placements /\ placements[c].via_pin # "")
    /\ [][\A c \in DOMAIN placements :
             c \in DOMAIN placements' /\ placements'[c] = placements[c]]_vars

\* C22 witness: run_seed has returned, and a cell that two fixed pins reach
\* has the first of them, which is not the first port, as its via_pin
C22_Witness ==
    /\ pl_pc \in {"grow", "done"}
    /\ Len(FixedPinNames) = 2
    /\ \E c \in ReachableFrom(FixedPinNames[1]) \cap ReachableFrom(FixedPinNames[2]) :
          /\ placements[c].via_pin = FixedPinNames[1]
          /\ FixedPinNames[1] = "p2"
    /\ \E c \in DOMAIN placements : placements[c].via_pin = FixedPinNames[2]

\* C30: the bucket queue of run_grow at the top of every iteration of the
\* loop: each unplaced cell c is in buckets[placed_count[c]] and in no other
\* bucket, placed_count[c] is the number of c's neighbours in placements,
\* no placed cell is in a bucket, and no bucket above max_bucket holds a
\* cell.
C30_BucketQueueInvariant ==
    pl_pc = "grow" =>
        /\ \A c \in unplaced :
              /\ c \in buckets[placed_count[c]]
              /\ \A k \in DOMAIN buckets : c \in buckets[k] => k = placed_count[c]
              /\ placed_count[c] = Cardinality(PlacedNeighbours(c, placements))
        /\ \A k \in DOMAIN buckets :
              /\ buckets[k] \cap DOMAIN placements = {}
              /\ buckets[k] # {} => k <= max_bucket

OtHasEntry ==
    /\ ot_cell_type \in DOMAIN ot_ldb
    /\ ot_pin_name \in DOMAIN ot_ldb[ot_cell_type]

OtLeak(key) ==
    LET entry == ot_ldb[ot_cell_type][ot_pin_name]
    IN  IF key \in DOMAIN entry THEN entry[key] ELSE Inf

(***************************************************************************)
(* C24: determine_optimal_tie returns tie_high only when the leakage table *)
(* has an entry for (cell type, pin) whose tie_high value is strictly      *)
(* lower than its tie_low value, a missing value counting as infinite; in  *)
(* every other case (no table, no cell type, no pin, equal values) it      *)
(* returns tie_low.                                                        *)
(***************************************************************************)
C24_TieHighOnlyWhenStrictlyLower ==
    ot_pc = "done" =>
        IF OtHasEntry /\ OtLeak("tie_high") < OtLeak("tie_low")
        THEN ot_result = "tie_high"
        ELSE ot_result = "tie_low"

\* a call answered tie_high for an entry that has no tie_low value
C24_Witness ==
    /\ ot_pc = "done"
    /\ ot_result = "tie_high"
    /\ OtHasEntry
    /\ "tie_low" \notin DOMAIN ot_ldb[ot_cell_type][ot_pin_name]

\* a step that is one move attempt of the inner loop
MoveAttempt == sa_pc' = "run" /\ move_no' = move_no + 1

(***************************************************************************)
(* C26: in run_sa a rejected move leaves the state as it was before the    *)
(* move: every cell's site and current_cost are unchanged; and at the end  *)
(* of every move attempt current_cost = total_hpwl(nets, current).         *)
(***************************************************************************)
C26_RejectedMoveLeavesState ==
    /\ [][MoveAttempt /\ ~accept' =>
            /\ current' = current
            /\ current_cost' = current_cost
            /\ cell_dicts' = cell_dicts /\ site_lists' = site_lists]_vars
    /\ [][MoveAttempt => current_cost' = total_hpwl(sa_nets, current')]_vars

\* a move was rejected in a run whose current placement had moved before
C26_Witness ==
    /\ sa_pc = "run"
    /\ move_no > 0
    /\ ~accept
    /\ current # sa_placements

OuterStep == T' # T \/ W' # W

C27_LoopStructure ==
    /\ [][OuterStep =>
            /\ InLoop /\ move_no = sa_params.moves_per_temp /\ move_no' = 0
            /\ T' = FracMul(T, sa_params.alpha)
            /\ W' = FracMul(W, beta_default(sa_params))]_vars
    /\ [][MoveAttempt => InLoop /\ move_no < sa_params.moves_per_temp]_vars
    /\ [][sa_pc' = "done" /\ sa_pc # "done" =>
            ~FracGt(T, sa_params.T_min) /\ move_no = 0]_vars
    /\ [](sa_pc = "done" /\ ~FracGt(sa_params.T_initial, sa_params.T_min) =>
            /\ T = sa_params.T_initial
            /\ best_place = sa_placements /\ current = sa_placements
            /\ best_cost = total_hpwl(sa_nets, sa_placements))

(***************************************************************************)
(* C27: run_sa terminates for every T_initial, T_min > 0 and 0 < alpha <   *)
(* 1: the outer loop runs while T > T_min, T is multiplied by alpha and W  *)
(* by beta once per outer step, each outer step makes exactly              *)
(* moves_per_temp move attempts, and with T_initial <= T_min no move is    *)
(* made and the input placement and its cost are returned.                 *)
(***************************************************************************)
C27_TerminatesAfterFullOuterSteps ==
    /\ [](sa_pc # "raised")
    /\ <>(sa_pc = "done")
    /\ C27_LoopStructure

dicts_of(obj) == {obj[c] : c \in DOMAIN obj}
lists_of(obj) == {cell_dicts[d].site : d \in dicts_of(obj)}

(***************************************************************************)
(* C28: run_sa never mutates its placements argument: every cell's site in *)
(* the caller's dict stays what it was at the call, and the returned       *)
(* best_place shares no site list (and no inner dict) with the argument or *)
(* with the internal current placement.                                    *)
(***************************************************************************)
C28_ArgumentUntouchedBestUnshared ==
    sa_pc \in {"run", "raised", "done"} =>
        /\ value_of(placements_obj, cell_dicts, site_lists) = sa_placements
        /\ lists_of(best_obj) \cap (lists_of(placements_obj) \cup lists_of(current_obj)) = {}
        /\ dicts_of(best_obj) \cap (dicts_of(placements_obj) \cup dicts_of(current_obj)) = {}

\* run_sa has returned a placement better than its argument, in which two
\* cells share one site list, after moves that changed current
C28_Witness ==
    /\ sa_pc = "done"
    /\ best_cost < total_hpwl(sa_nets, sa_placements)
    /\ current # sa_placements
    /\ Cardinality(lists_of(placements_obj)) < Cardinality(dicts_of(placements_obj))

(***************************************************************************)
(* C23: the weighted refiner (bonus/sa_with_weights.py run_sa) handles     *)
(* every candidate swap as specified: delta <= 0 is accepted, delta > 0 is *)
(* accepted with probability exp(-delta/T) and otherwise reverted; so for  *)
(* every input of two cells or more, also when some swap raises the cost,  *)
(* run_sa completes and returns (best_place, best_cost).                   *)
(***************************************************************************)
C23_WeightedRefinerCompletes ==
    /\ [](Cardinality(DOMAIN sa_placements) >= 2 => sa_pc \in {"run", "done"})
    /\ [][MoveAttempt =>
            /\ current_cost' = total_hpwl_weighted(sa_nets, current', sa_params.net_weights)
            /\ ~accept' => current' = current /\ current_cost' = current_cost]_vars
    /\ [](sa_pc = "done" =>
            best_cost = total_hpwl_weighted(sa_nets, best_place, sa_params.net_weights))

HtRanWithBuffers == ht_pc = "done" /\ available_buffers # <<>>

BufferOutputs == {ht_cells[b].connections["X"] : b \in Range(clock_buffers)}

RECURSIVE LeadsToClk(_, _)
LeadsToClk(net, fuel) ==
    \/ net = NetClk
    \/ /\ fuel > 0
       /\ \E b \in Range(clock_buffers) :
             /\ ht_cells[b].connections["X"] = net
             /\ LeadsToClk(ht_cells[b].connections["A"], fuel - 1)

EveryBufferLeadsToClk ==
    \A b \in Range(clock_buffers) :
        LeadsToClk(ht_cells[b].connections["A"], Len(clock_buffers))

(***************************************************************************)
(* C25: after h_tree_cts has run with at least one available buffer, the   *)
(* clock reaches every sink: every flip-flop that has a site has its CLK   *)
(* pin on a net that is the X output net of some clock buffer, and from    *)
(* each clock buffer the way up, from its A input net to the buffer whose  *)
(* X output is that net, ends at the net 'clk'.                            *)
(***************************************************************************)
C25_ClockReachesEverySink ==
    HtRanWithBuffers =>
        /\ \A i \in DOMAIN ht_dffs :
              ht_cells[ht_dffs[i]].site # NoSite =>
                  ht_cells[ht_dffs[i]].connections["CLK"] \in BufferOutputs
        /\ EveryBufferLeadsToClk

\* the cells that have an input pin on the net
LoadsOf(net) ==
    {n \in DOMAIN ht_cells :
        \E pin \in DOMAIN ht_cells[n].connections \ {"X"} :
            ht_cells[n].connections[pin] = net}

(***************************************************************************)
(* C29: in h_tree_cts every clock buffer drives at most MAX_FANOUT (16)    *)
(* loads: a level-0 buffer is assigned at most 16 flip-flops, every parent *)
(* of an upper level is given at most 16 child buffers, and the loop over  *)
(* the levels ends because each level has fewer buffers than the one below.*)
(***************************************************************************)
C29_FanoutWithinMaxLevelsShrink ==
    /\ [](\A i \in DOMAIN l0_buffers : Len(l0_buffers[i].dffs) <= MAX_FANOUT)
    /\ [](\A b \in Range(clock_buffers) :
             Cardinality(LoadsOf(ht_cells[b].connections["X"])) <= MAX_FANOUT)
    /\ [][ht_pc = "levels" /\ level' = level + 1 =>
            /\ Len(current_level_bufs') < Len(current_level_bufs)
            /\ Len(current_level_bufs') >= 1
            /\ \A i \in DOMAIN current_level_bufs' :
                  Cardinality({c \in Range(current_level_bufs) :
                                  ht_cells'[c].connections["A"]
                                      = ht_cells'[current_level_bufs'[i]].connections["X"]})
                      <= MAX_FANOUT]_vars

\* the tree is built: one buffer has MAX_FANOUT flip-flops, another one has
\* the next flip-flop, and there were two levels of parents
C29_Witness ==
    /\ ht_pc = "done"
    /\ level >= 3
    /\ \E i \in DOMAIN l0_buffers, j \in DOMAIN l0_buffers :
          /\ Len(l0_buffers[i].dffs) = MAX_FANOUT
          /\ i # j /\ l0_buffers[j].dffs # <<>>

====
